---------------------------- MODULE Spec2Model ----------------------------
(***************************************************************************)
(* Value objects (api/value_object): typed fields, nested value objects,   *)
(* keyed collections, and the operations construct / hydrate / update /    *)
(* dehydrate / get_public_values.                                          *)
(*                                                                         *)
(* Python objects are modelled as follows.                                 *)
(*   - A value is a tagged record.  None, primitives, byte strings, text,  *)
(*     dates, datetimes, decimals and dicts are immutable values (the code *)
(*     never mutates a dict held by a Collection field in place, it always *)
(*     builds a new one).                                                  *)
(*   - A value-object instance is mutable and compared by identity, so it  *)
(*     lives in `heap` and is referred to by Ref(id).                      *)
(*   - Text and byte strings are sequences of code points / byte values,   *)
(*     so that formatting, parsing, encoding and decoding are computed.    *)
(***************************************************************************)
EXTENDS Integers, Sequences, FiniteSets, TLC

VARIABLES
    heap,   \* object id -> [type, values]: every BaseValueObject instance alive
    roots,  \* slot -> object id (0: the caller's variable is not bound yet)
    vtype,  \* the value-object class the caller's variables hold
    last,   \* the last operation the caller performed, and its arguments
    table,  \* session_key -> session_data: the rows of the session table
    stores  \* the SessionStore instances alive: [session_key, cache, exists, modified]

vars == <<heap, roots, vtype, last, table, stores>>

(***************************************************************************)
(* Bounds of the model.                                                    *)
(***************************************************************************)
\* Primitive values are the integers 1..MaxVal.
MaxVal == 2

(***************************************************************************)
(* Values.                                                                 *)
(***************************************************************************)
None == [k |-> "none"]
Prim(n) == [k |-> "prim", n |-> n]
BytesVal(b) == [k |-> "bytes", b |-> b]
Text(s) == [k |-> "text", s |-> s]
DateVal(y, mo, d) == [k |-> "date", y |-> y, mo |-> mo, d |-> d]
\* tz: "naive" (no tzinfo), or "aware" with off = utcoffset in minutes.
DatetimeVal(y, mo, d, H, M, S, us, tz, off) ==
    [k |-> "datetime", y |-> y, mo |-> mo, d |-> d, H |-> H, M |-> M, S |-> S,
     us |-> us, tz |-> tz, off |-> off]
\* (-1)^sign * coef * 10^exp, as decimal.Decimal stores it.
DecimalVal(sign, coef, exp) == [k |-> "decimal", sign |-> sign, coef |-> coef, exp |-> exp]
Dict(m) == [k |-> "dict", m |-> m]
Ref(id) == [k |-> "ref", id |-> id]
\* An exception raised by a conversion (ValueError, UnicodeDecodeError, ...).
Raised(what) == [k |-> "raised", what |-> what]

EmptyMap == <<>>

\* dict.get(key, None)
Get(m, key) == IF key \in DOMAIN m THEN m[key] ELSE None

\* dict.update(other): other's entries are added to or replace d's.
DictUpdate(d, other) ==
    [x \in (DOMAIN d) \cup (DOMAIN other) |-> IF x \in DOMAIN other THEN other[x] ELSE d[x]]

\* Python truthiness of the values `value or {}` is applied to.
Falsy(v) == v = None \/ (v.k = "dict" /\ DOMAIN v.m = {})

SeqToSet(s) == {s[i] : i \in 1..Len(s)}

(***************************************************************************)
(* Text helpers: decimal digits as code points.                            *)
(***************************************************************************)
RECURSIVE Pow10(_)
Pow10(n) == IF n <= 0 THEN 1 ELSE 10 * Pow10(n - 1)

\* n written with exactly w digits, zero padded ('%02d', '%04d').
Pad(n, w) == [i \in 1..w |-> 48 + ((n \div Pow10(w - i)) % 10)]

RECURSIVE NumDigits(_)
NumDigits(n) == IF n < 10 THEN 1 ELSE 1 + NumDigits(n \div 10)

\* str(n) for n >= 0.
Digits(n) == Pad(n, NumDigits(n))

Zeros(n) == [i \in 1..n |-> 48]

IsDigit(c) == c >= 48 /\ c <= 57

AllDigits(s) == \A i \in 1..Len(s) : IsDigit(s[i])

RECURSIVE ToInt(_)
ToInt(s) == IF Len(s) = 0 THEN 0 ELSE 10 * ToInt(SubSeq(s, 1, Len(s) - 1)) + (s[Len(s)] - 48)

IsLeap(y) == (y % 4 = 0 /\ y % 100 # 0) \/ y % 400 = 0

DaysInMonth(y, mo) ==
    IF mo = 2 THEN (IF IsLeap(y) THEN 29 ELSE 28)
    ELSE IF mo \in {4, 6, 9, 11} THEN 30 ELSE 31

RECURSIVE DaysBeforeMonth(_, _)
DaysBeforeMonth(y, mo) == IF mo <= 1 THEN 0 ELSE DaysInMonth(y, mo - 1) + DaysBeforeMonth(y, mo - 1)

\* date.toordinal()
Ordinal(y, mo, d) ==
    365 * (y - 1) + ((y - 1) \div 4) - ((y - 1) \div 100) + ((y - 1) \div 400)
        + DaysBeforeMonth(y, mo) + d


(***************************************************************************)
(* datetime.strptime: the format is a sequence of tokens.  A numeric       *)
(* directive takes the digit run at the cursor (at most `max` digits, at   *)
(* least `min`) and its value must lie in lo..hi; a blank in the format    *)
(* matches one or more blanks; any other character matches itself.  Text   *)
(* left over after the last token is an error ("unconverted data           *)
(* remains").  (The ' [1-9]' alternative of %d is not modelled.)           *)
(***************************************************************************)
Num(min, max, lo, hi) == [t |-> "num", min |-> min, max |-> max, lo |-> lo, hi |-> hi]
Lit(c) == [t |-> "lit", c |-> c]
Blank == [t |-> "ws"]

RECURSIVE RunLen(_, _, _, _)
\* Length of the run of characters of `set` in s starting at i, capped at max.
RunLen(s, i, set, max) ==
    IF max = 0 \/ i > Len(s) \/ s[i] \notin set THEN 0
    ELSE 1 + RunLen(s, i + 1, set, max - 1)

DigitChars == 48..57

NoMatch == [ok |-> FALSE, nums |-> <<>>]

RECURSIVE Match(_, _, _, _, _)
Match(s, i, pat, j, acc) ==
    IF j > Len(pat)
    THEN (IF i = Len(s) + 1 THEN [ok |-> TRUE, nums |-> acc] ELSE NoMatch)
    ELSE LET p == pat[j] IN
         CASE p.t = "lit" ->
                IF i <= Len(s) /\ s[i] = p.c THEN Match(s, i + 1, pat, j + 1, acc) ELSE NoMatch
           [] p.t = "ws" ->
                LET r == RunLen(s, i, {32}, Len(s)) IN
                IF r >= 1 THEN Match(s, i + r, pat, j + 1, acc) ELSE NoMatch
           [] p.t = "num" ->
                LET r == RunLen(s, i, DigitChars, p.max)
                    n == ToInt(SubSeq(s, i, i + r - 1))
                IN  IF r >= p.min /\ n >= p.lo /\ n <= p.hi
                    THEN Match(s, i + r, pat, j + 1, Append(acc, n))
                    ELSE NoMatch

\* '%Y-%m-%d'
DateFormat == <<Num(4, 4, 0, 9999), Lit(45), Num(1, 2, 1, 12), Lit(45), Num(1, 2, 1, 31)>>

\* '%Y-%m-%d %H:%M:%S'
DatetimeFormat ==
    DateFormat \o <<Blank, Num(1, 2, 0, 23), Lit(58), Num(1, 2, 0, 59), Lit(58), Num(1, 2, 0, 61)>>

\* datetime.date / datetime.datetime reject a day the month does not have, year 0 and
\* second 60/61.
ValidDate(y, mo, d) == y >= 1 /\ d <= DaysInMonth(y, mo)

(***************************************************************************)
(* UTF-8 (the default encoding of Bytes fields), code points < 65536.      *)
(***************************************************************************)
EncodeChar(c) ==
    IF c < 128 THEN <<c>>
    ELSE IF c < 2048 THEN <<192 + (c \div 64), 128 + (c % 64)>>
    ELSE <<224 + (c \div 4096), 128 + ((c \div 64) % 64), 128 + (c % 64)>>

RECURSIVE Utf8Encode(_)
\* unicode.encode('utf-8')
Utf8Encode(s) == IF Len(s) = 0 THEN <<>> ELSE EncodeChar(Head(s)) \o Utf8Encode(Tail(s))

IsCont(b, i) == i <= Len(b) /\ b[i] >= 128 /\ b[i] <= 191

RECURSIVE Utf8Decode(_, _)
\* str.decode('utf-8') from position i: the code points, or <<-1>> at the first
\* invalid byte (UnicodeDecodeError).
Utf8Decode(b, i) ==
    IF i > Len(b) THEN <<>>
    ELSE LET c == b[i] IN
         IF c < 128 THEN <<c>> \o Utf8Decode(b, i + 1)
         ELSE IF c >= 194 /\ c <= 223 /\ IsCont(b, i + 1)
         THEN <<(c - 192) * 64 + (b[i + 1] - 128)>> \o Utf8Decode(b, i + 2)
         ELSE IF c >= 224 /\ c <= 239 /\ IsCont(b, i + 1) /\ IsCont(b, i + 2)
                 /\ (c - 224) * 4096 + (b[i + 1] - 128) * 64 >= 2048
         THEN <<(c - 224) * 4096 + (b[i + 1] - 128) * 64 + (b[i + 2] - 128)>>
                 \o Utf8Decode(b, i + 3)
         ELSE <<-1>>

(***************************************************************************)
(* Scalar field kinds: fields.py.  A conversion that raises yields         *)
(* Raised(..).                                                             *)
(***************************************************************************)
\* Field.init
Field_init(value) == value

\* Field.merge without the null check: the incoming value always wins.
Field_merge_overwrite(existing, incoming) == incoming

\* Field.merge that clears a value the incoming one repeats.
Field_merge_toggle(existing, incoming) ==
    IF incoming = None THEN existing ELSE IF existing = incoming THEN None ELSE incoming

\* Field.merge
Field_merge(existing, incoming) == IF incoming = None THEN existing ELSE incoming

\* Field.hydrate
Field_hydrate(value) == value

\* Field.dehydrate
Field_dehydrate(value) == value

\* Bytes.hydrate without the test for None: None has no encode().
Bytes_hydrate_unguarded(value) ==
    IF value = None THEN Raised("AttributeError") ELSE BytesVal(Utf8Encode(value.s))

\* Bytes.hydrate: value.encode(self.encoding)
Bytes_hydrate(value) == IF value = None THEN None ELSE BytesVal(Utf8Encode(value.s))

\* Bytes.dehydrate: value.decode(self.encoding)
Bytes_dehydrate(value) ==
    IF value = None THEN None
    ELSE LET s == Utf8Decode(value.b, 1) IN
         IF -1 \in SeqToSet(s) THEN Raised("UnicodeDecodeError") ELSE Text(s)

\* date.strftime('%Y-%m-%d')
FormatDate(v) == Pad(v.y, 4) \o <<45>> \o Pad(v.mo, 2) \o <<45>> \o Pad(v.d, 2)

\* time part of strftime('%H:%M:%S')
FormatTime(v) == Pad(v.H, 2) \o <<58>> \o Pad(v.M, 2) \o <<58>> \o Pad(v.S, 2)

\* Date.hydrate giving None for text that does not match, instead of raising.
Date_hydrate_lenient(value) ==
    IF value = None THEN None
    ELSE LET r == Match(value.s, 1, DateFormat, 1, <<>>) IN
         IF r.ok /\ ValidDate(r.nums[1], r.nums[2], r.nums[3])
         THEN DateVal(r.nums[1], r.nums[2], r.nums[3])
         ELSE None

\* Date.hydrate: datetime.strptime(value, '%Y-%m-%d').date()
Date_hydrate(value) ==
    IF value = None THEN None
    ELSE LET r == Match(value.s, 1, DateFormat, 1, <<>>) IN
         IF r.ok /\ ValidDate(r.nums[1], r.nums[2], r.nums[3])
         THEN DateVal(r.nums[1], r.nums[2], r.nums[3])
         ELSE Raised("ValueError")

\* Date.dehydrate: value.strftime('%Y-%m-%d')
Date_dehydrate(value) == IF value = None THEN None ELSE Text(FormatDate(value))

\* Date.make_public_value: value.isoformat()
Date_make_public_value(value) == IF value = None THEN None ELSE Text(FormatDate(value))

\* Datetime.hydrate: datetime.strptime(value, '%Y-%m-%d %H:%M:%S').replace(tzinfo=utc)
Datetime_hydrate(value) ==
    IF value = None THEN None
    ELSE LET r == Match(value.s, 1, DatetimeFormat, 1, <<>>) IN
         IF r.ok /\ ValidDate(r.nums[1], r.nums[2], r.nums[3]) /\ r.nums[6] <= 59
         THEN DatetimeVal(r.nums[1], r.nums[2], r.nums[3], r.nums[4], r.nums[5], r.nums[6],
                          0, "aware", 0)
         ELSE Raised("ValueError")

\* Datetime.dehydrate: value.strftime('%Y-%m-%d %H:%M:%S'): the wall-clock fields as
\* they are; tzinfo and microseconds are not written.
Datetime_dehydrate(value) ==
    IF value = None THEN None ELSE Text(FormatDate(value) \o <<32>> \o FormatTime(value))

\* '+HH:MM' / '-HH:MM' of a utcoffset in minutes.
FormatOffset(off) ==
    LET a == IF off < 0 THEN -off ELSE off IN
    <<IF off < 0 THEN 45 ELSE 43>> \o Pad(a \div 60, 2) \o <<58>> \o Pad(a % 60, 2)

\* Datetime.make_public_value: value.isoformat()
Datetime_make_public_value(value) ==
    IF value = None THEN None
    ELSE Text(FormatDate(value) \o <<84>> \o FormatTime(value)
              \o (IF value.us # 0 THEN <<46>> \o Pad(value.us, 6) ELSE <<>>)
              \o (IF value.tz = "aware" THEN FormatOffset(value.off) ELSE <<>>))

\* format(value, 'f') of a finite decimal.Decimal: fixed point, never an exponent.
FormatDecimalF(v) ==
    LET ds == Digits(v.coef)
        n == Len(ds)
        body == IF v.exp >= 0 THEN ds \o Zeros(v.exp)
                ELSE IF n > -v.exp
                THEN SubSeq(ds, 1, n + v.exp) \o <<46>> \o SubSeq(ds, n + v.exp + 1, n)
                ELSE <<48, 46>> \o Zeros((-v.exp) - n) \o ds
    IN  (IF v.sign = 1 THEN <<45>> ELSE <<>>) \o body

\* decimal.Decimal(text): [sign] digits [. digits] [ (e|E) [sign] digits ].
ParseDecimal(s) ==
    LET neg == Len(s) >= 1 /\ s[1] = 45
        i0 == IF Len(s) >= 1 /\ s[1] \in {43, 45} THEN 2 ELSE 1
        ni == RunLen(s, i0, DigitChars, Len(s))
        dot == i0 + ni <= Len(s) /\ s[i0 + ni] = 46
        f0 == IF dot THEN i0 + ni + 1 ELSE i0 + ni
        nf == IF dot THEN RunLen(s, f0, DigitChars, Len(s)) ELSE 0
        e0 == f0 + nf
        hasE == e0 <= Len(s) /\ s[e0] \in {69, 101}
        eneg == hasE /\ e0 + 1 <= Len(s) /\ s[e0 + 1] = 45
        x0 == IF hasE /\ e0 + 1 <= Len(s) /\ s[e0 + 1] \in {43, 45} THEN e0 + 2 ELSE e0 + 1
        nx == IF hasE THEN RunLen(s, x0, DigitChars, Len(s)) ELSE 0
        stop == IF hasE THEN x0 + nx ELSE e0
        e == ToInt(SubSeq(s, x0, x0 + nx - 1))
        coef == ToInt(SubSeq(s, i0, i0 + ni - 1) \o SubSeq(s, f0, f0 + nf - 1))
    IN  IF ni + nf >= 1 /\ (hasE => nx >= 1) /\ stop = Len(s) + 1
        THEN DecimalVal(IF neg THEN 1 ELSE 0, coef, (IF eneg THEN -e ELSE e) - nf)
        ELSE Raised("InvalidOperation")

\* Decimal.hydrate: DecimalType(value)
Decimal_hydrate(value) == IF value = None THEN None ELSE ParseDecimal(value.s)

\* Decimal.dehydrate with str(value) in place of format(value, 'f'): scientific
\* notation when the exponent is positive.
Decimal_dehydrate_str(value) ==
    IF value = None THEN None
    ELSE IF value.exp > 0
    THEN LET ds == Digits(value.coef) IN
         Text((IF value.sign = 1 THEN <<45>> ELSE <<>>)
              \o <<ds[1]>> \o (IF Len(ds) > 1 THEN <<46>> \o SubSeq(ds, 2, Len(ds)) ELSE <<>>)
              \o <<69, 43>> \o Digits(value.exp + Len(ds) - 1))
    ELSE Text(FormatDecimalF(value))

\* Decimal.dehydrate: format(value, 'f')
Decimal_dehydrate(value) == IF value = None THEN None ELSE Text(FormatDecimalF(value))

\* Decimal.make_public_value: format(value, 'f')
Decimal_make_public_value(value) == IF value = None THEN None ELSE Text(FormatDecimalF(value))

(***************************************************************************)
(* Field declarations: the constructors of fields.py.  `public` is a bool  *)
(* or, for Collection and ValueObject, a set of keys.  A field declared    *)
(* without a key has key NoKey until the metaclass names it.               *)
(***************************************************************************)
NoKey == ""
PubBool(b) == [isset |-> FALSE, flag |-> b, keys |-> {}]
PubSet(S) == [isset |-> TRUE, flag |-> TRUE, keys |-> S]

\* Python truthiness of field.public (bool(set) is whether it is non-empty).
PublicTruthy(p) == IF p.isset THEN p.keys # {} ELSE p.flag

\* fields.Primitive(key, public)
Primitive(key, public) == [kind |-> "Primitive", key |-> key, public |-> PubBool(public)]
\* fields.Bytes(key, encoding='utf-8')
Bytes(key) == [kind |-> "Bytes", key |-> key, public |-> PubBool(TRUE), encoding |-> "utf-8"]
\* fields.Date(key, public)
Date(key, public) == [kind |-> "Date", key |-> key, public |-> PubBool(public)]
\* fields.Datetime(key, public)
Datetime(key, public) == [kind |-> "Datetime", key |-> key, public |-> PubBool(public)]
\* fields.Decimal(key, public)
Decimal(key, public) == [kind |-> "Decimal", key |-> key, public |-> PubBool(public)]
\* fields.ValueObject(vo_type, key, public)
ValueObject(vo_type, key, public) ==
    [kind |-> "ValueObject", key |-> key, public |-> public, vo_type |-> vo_type]
\* fields.Collection(sub_field, key, public); a field class or a value-object class
\* given as sub_field is instantiated with its defaults.
Collection(sub_field, key, public) ==
    [kind |-> "Collection", key |-> key, public |-> public, sub_field |-> sub_field]

Attr(attr, field) == [attr |-> attr, field |-> field]

(***************************************************************************)
(* The value-object classes, as their class bodies declare them.           *)
(***************************************************************************)
\* class ApplicantObject: its `birthday = fields.Date()` line is a comment, so the
\* class declares four fields.
ApplicantObjectAttrs ==
    << Attr("first_name", Primitive(NoKey, TRUE)),
       Attr("last_name", Primitive(NoKey, TRUE)),
       Attr("gender", Primitive(NoKey, TRUE)),
       Attr("email", Primitive(NoKey, TRUE)) >>

ClassAttrs(T) ==
    CASE T = "SimpleTestValueObject" ->
            << Attr("name", Primitive(NoKey, TRUE)),
               Attr("age", Primitive(NoKey, TRUE)),
               Attr("favorite_color", Primitive("favoriteColor", TRUE)) >>
      [] T = "TypedTestValueObject" ->
            << Attr("bytes", Bytes(NoKey)),
               Attr("date", Date(NoKey, TRUE)),
               Attr("datetime", Datetime(NoKey, TRUE)),
               Attr("decimal", Decimal(NoKey, TRUE)) >>
      [] T = "ComplexTestValueObject" ->
            << Attr("simple", Collection(Primitive(NoKey, TRUE), "simpleCollection", PubBool(TRUE))),
               Attr("dates", Collection(Date(NoKey, TRUE), "dateCollection", PubBool(TRUE))) >>
      [] T = "TestLoanObject" ->
            << Attr("amount", Primitive(NoKey, TRUE)) >>
      [] T = "TestAddressObject" ->
            << Attr("street", Primitive(NoKey, TRUE)) >>
      [] T = "TestApplicantObject" ->
            << Attr("name", Primitive(NoKey, TRUE)),
               Attr("loan", ValueObject("TestLoanObject", NoKey, PubBool(TRUE))),
               Attr("addresses",
                    Collection(ValueObject("TestAddressObject", NoKey, PubBool(TRUE)),
                               NoKey, PubBool(TRUE))) >>
      [] T = "ApplicantObject" -> ApplicantObjectAttrs
      [] T = "PartialVisibilitySimpleTestValueObject" ->
            << Attr("public1", Primitive(NoKey, TRUE)),
               Attr("public2", Primitive(NoKey, TRUE)),
               Attr("private", Primitive(NoKey, FALSE)) >>
      [] T = "PartialVisibilityComplexTestValueObject" ->
            << Attr("public_collection",
                    Collection(Primitive(NoKey, TRUE), "publicCollection", PubBool(TRUE))),
               Attr("private_collection",
                    Collection(Primitive(NoKey, TRUE), "privateCollection", PubBool(FALSE))),
               Attr("partial_collection",
                    Collection(Primitive(NoKey, TRUE), "partialCollection",
                               PubSet({"alpha", "charlie", "delta"}))),
               Attr("public_nested",
                    ValueObject("PartialVisibilitySimpleTestValueObject", "publicNested",
                                PubBool(TRUE))),
               Attr("private_nested",
                    ValueObject("PartialVisibilitySimpleTestValueObject", "privateNested",
                                PubBool(FALSE))),
               Attr("partial_nested",
                    ValueObject("PartialVisibilitySimpleTestValueObject", "partialNested",
                                PubSet({"public1", "private", "foo"}))) >>

\* The value-object classes declared.
ClassNames ==
    {"SimpleTestValueObject", "TypedTestValueObject", "ComplexTestValueObject",
     "TestLoanObject", "TestAddressObject", "TestApplicantObject",
     "PartialVisibilitySimpleTestValueObject", "PartialVisibilityComplexTestValueObject",
     "ApplicantObject"}

\* ValueObjectMeta.__new__: the class's `fields`, each field without a key taking its
\* attribute's name.  Kept as a sequence: the order the class's fields are visited in.
FieldsOfClass ==
    [T \in ClassNames |->
        [i \in 1..Len(ClassAttrs(T)) |->
            LET a == ClassAttrs(T)[i] IN
            Attr(a.attr,
                 IF a.field.key = NoKey THEN [a.field EXCEPT !.key = a.attr] ELSE a.field)]]

Fields(T) == FieldsOfClass[T]

\* The attribute names a class declares.
AttrNames(T) == {Fields(T)[i].attr : i \in 1..Len(Fields(T))}

(***************************************************************************)
(* The heap of value-object instances.                                     *)
(***************************************************************************)
NewId(h) == Cardinality(DOMAIN h) + 1

\* isinstance(value, vo_type)
IsInstance(h, value, T) == value.k = "ref" /\ h[value.id].type = T

\* A deterministic pick, to visit a dict's items one by one.
Pick(S) == CHOOSE x \in S : TRUE

(***************************************************************************)
(* init: Field.init and its overrides, BaseValueObject.__init__.           *)
(* Each returns [h |-> the heap afterwards, v |-> the value].              *)
(***************************************************************************)
RECURSIVE init(_, _, _)
RECURSIVE BaseValueObject_init(_, _, _)
RECURSIVE InitFields(_, _, _, _, _)
RECURSIVE InitItems(_, _, _, _, _)

\* Collection.init's dict comprehension {k: self.sub_field.init(v) for k, v in value.items()}
InitItems(h, sub, m, todo, acc) ==
    IF todo = {} THEN [h |-> h, v |-> Dict(acc)]
    ELSE LET x == Pick(todo)
             r == init(h, sub, m[x])
         IN  InitItems(r.h, sub, m, todo \ {x}, DictUpdate(acc, x :> r.v))

\* Collection.init without the null check's empty mapping: None stays None.
Collection_init_none(h, f, value) ==
    IF value = None THEN [h |-> h, v |-> None]
    ELSE InitItems(h, f.sub_field, value.m, DOMAIN value.m, EmptyMap)

\* Collection.init
Collection_init(h, f, value) ==
    IF value = None THEN [h |-> h, v |-> Dict(EmptyMap)]
    ELSE InitItems(h, f.sub_field, value.m, DOMAIN value.m, EmptyMap)

\* ValueObject.init without `or {}`: None stays None.
ValueObject_init_none(h, f, value) ==
    IF IsInstance(h, value, f.vo_type) \/ value = None THEN [h |-> h, v |-> value]
    ELSE BaseValueObject_init(h, f.vo_type, IF Falsy(value) THEN EmptyMap ELSE value.m)

\* ValueObject.init: value if isinstance(value, self.vo_type) else self.vo_type(value or {})
ValueObject_init(h, f, value) ==
    IF IsInstance(h, value, f.vo_type) THEN [h |-> h, v |-> value]
    ELSE BaseValueObject_init(h, f.vo_type, IF Falsy(value) THEN EmptyMap ELSE value.m)

init(h, f, value) ==
    CASE f.kind = "Collection" -> Collection_init(h, f, value)
      [] f.kind = "ValueObject" -> ValueObject_init(h, f, value)
      [] OTHER -> [h |-> h, v |-> Field_init(value)]

\* InitFields with the dict comprehension keyed by field.key instead of the attribute name.
InitFields_by_key(h, fs, filtered_data, i, acc) ==
    IF i > Len(fs) THEN [h |-> h, v |-> acc]
    ELSE LET r == init(h, fs[i].field, Get(filtered_data, fs[i].field.key))
         IN  InitFields(r.h, fs, filtered_data, i + 1, DictUpdate(acc, fs[i].field.key :> r.v))

\* BaseValueObject.__init__'s dict comprehension
\* {name: field.init(filtered_data.get(field.key, None)) for name, field in fields.items()}
InitFields(h, fs, filtered_data, i, acc) ==
    IF i > Len(fs) THEN [h |-> h, v |-> acc]
    ELSE LET r == init(h, fs[i].field, Get(filtered_data, fs[i].field.key))
         IN  InitFields(r.h, fs, filtered_data, i + 1, DictUpdate(acc, fs[i].attr :> r.v))

\* BaseValueObject.__init__: a new instance of class T.
BaseValueObject_init(h, T, filtered_data) ==
    LET r == InitFields(h, Fields(T), filtered_data, 1, EmptyMap)
        id == NewId(r.h)
    IN  [h |-> r.h @@ (id :> [type |-> T, values |-> r.v]), v |-> Ref(id)]

(***************************************************************************)
(* merge: Field.merge and its overrides, BaseValueObject.update.           *)
(* update changes the receiver in place, so merge returns the heap too.    *)
(***************************************************************************)
RECURSIVE merge(_, _, _, _)
RECURSIVE BaseValueObject_update(_, _, _)
RECURSIVE MergeFields(_, _, _, _, _, _)
RECURSIVE MergeItems(_, _, _, _, _, _)

\* Collection.merge's dict comprehension
\* {k: self.sub_field.merge(merged.get(k, None), v) for k, v in incoming.items()}
MergeItems(h, sub, merged, incoming, todo, acc) ==
    IF todo = {} THEN [h |-> h, v |-> acc]
    ELSE LET x == Pick(todo)
             r == merge(h, sub, Get(merged, x), incoming[x])
         IN  MergeItems(r.h, sub, merged, incoming, todo \ {x}, DictUpdate(acc, x :> r.v))

\* Collection.merge that starts from an empty mapping instead of a copy of existing.
Collection_merge_replace(h, f, existing, incoming) ==
    IF incoming # None
    THEN LET r == MergeItems(h, f.sub_field, EmptyMap, incoming.m, DOMAIN incoming.m, EmptyMap)
         IN  [h |-> r.h, v |-> Dict(r.v)]
    ELSE [h |-> h, v |-> Dict(EmptyMap)]

\* Collection.merge in which an entry of existing is kept when incoming has the key too.
Collection_merge_existing_wins(h, f, existing, incoming) ==
    LET merged == IF existing # None THEN DictUpdate(EmptyMap, existing.m) ELSE EmptyMap IN
    IF incoming # None
    THEN LET r == MergeItems(h, f.sub_field, merged, incoming.m, DOMAIN incoming.m, EmptyMap)
         IN  [h |-> r.h, v |-> Dict(DictUpdate(r.v, merged))]
    ELSE [h |-> h, v |-> Dict(merged)]

\* Collection.merge
Collection_merge(h, f, existing, incoming) ==
    LET merged == IF existing # None THEN DictUpdate(EmptyMap, existing.m) ELSE EmptyMap IN
    IF incoming # None
    THEN LET r == MergeItems(h, f.sub_field, merged, incoming.m, DOMAIN incoming.m, EmptyMap)
         IN  [h |-> r.h, v |-> Dict(DictUpdate(merged, r.v))]
    ELSE [h |-> h, v |-> Dict(merged)]

\* ValueObject.merge that returns incoming instead of updating existing with it.
ValueObject_merge_replace(h, f, existing, incoming) ==
    IF existing = None THEN [h |-> h, v |-> incoming]
    ELSE IF incoming # None THEN [h |-> h, v |-> incoming]
    ELSE [h |-> h, v |-> existing]

\* ValueObject.merge that returns incoming whatever the operands are.
ValueObject_merge_incoming(h, f, existing, incoming) == [h |-> h, v |-> incoming]

\* ValueObject.merge with the roles swapped: incoming is updated with existing.
ValueObject_merge_swapped(h, f, existing, incoming) ==
    IF existing = None THEN [h |-> h, v |-> incoming]
    ELSE IF incoming # None
    THEN [h |-> BaseValueObject_update(h, incoming.id, existing.id), v |-> incoming]
    ELSE [h |-> h, v |-> existing]

\* ValueObject.merge
ValueObject_merge(h, f, existing, incoming) ==
    IF existing = None THEN [h |-> h, v |-> incoming]
    ELSE IF incoming # None
    THEN [h |-> BaseValueObject_update(h, existing.id, incoming.id), v |-> existing]
    ELSE [h |-> h, v |-> existing]

merge(h, f, existing, incoming) ==
    CASE f.kind = "Collection" -> Collection_merge(h, f, existing, incoming)
      [] f.kind = "ValueObject" -> ValueObject_merge(h, f, existing, incoming)
      [] OTHER -> [h |-> h, v |-> Field_merge(existing, incoming)]

\* BaseValueObject.update's dict comprehension
\* {name: field.merge(self._values.get(name), incoming._values.get(name)) ...}
MergeFields(h, fs, self, incoming, i, acc) ==
    IF i > Len(fs) THEN [h |-> h, v |-> acc]
    ELSE LET r == merge(h, fs[i].field, Get(h[self].values, fs[i].attr),
                        Get(h[incoming].values, fs[i].attr))
         IN  MergeFields(r.h, fs, self, incoming, i + 1, DictUpdate(acc, fs[i].attr :> r.v))

\* BaseValueObject.update: self._values.update({...}); the heap afterwards.
BaseValueObject_update(h, self, incoming) ==
    LET r == MergeFields(h, Fields(h[self].type), self, incoming, 1, EmptyMap)
    IN  [r.h EXCEPT ![self].values = DictUpdate(@, r.v)]

(***************************************************************************)
(* dehydrate: Field.dehydrate and its overrides, BaseValueObject.dehydrate.*)
(***************************************************************************)
RECURSIVE dehydrate(_, _, _)
RECURSIVE BaseValueObject_dehydrate(_, _)

\* The field of the last attribute (in visiting order) declared with `key`: in a dict
\* comprehension a later entry with the same key replaces an earlier one.
LastWithKey(fs, key) ==
    LET i == CHOOSE i \in 1..Len(fs) :
                 /\ fs[i].field.key = key
                 /\ \A j \in (i + 1)..Len(fs) : fs[j].field.key # key
    IN  fs[i]

FieldKeys(fs) == {fs[i].field.key : i \in 1..Len(fs)}

\* Collection.dehydrate returning the elements as they are held, without sub_field.dehydrate.
Collection_dehydrate_shallow(h, f, value) ==
    IF value = None THEN Dict(EmptyMap) ELSE value

\* Collection.dehydrate
Collection_dehydrate(h, f, value) ==
    IF value = None THEN Dict(EmptyMap)
    ELSE Dict([x \in DOMAIN value.m |-> dehydrate(h, f.sub_field, value.m[x])])

\* ValueObject.dehydrate
ValueObject_dehydrate(h, f, value) ==
    IF value = None THEN None ELSE Dict(BaseValueObject_dehydrate(h, value.id))

dehydrate(h, f, value) ==
    CASE f.kind = "Collection" -> Collection_dehydrate(h, f, value)
      [] f.kind = "ValueObject" -> ValueObject_dehydrate(h, f, value)
      [] f.kind = "Bytes" -> Bytes_dehydrate(value)
      [] f.kind = "Date" -> Date_dehydrate(value)
      [] f.kind = "Datetime" -> Datetime_dehydrate(value)
      [] f.kind = "Decimal" -> Decimal_dehydrate(value)
      [] OTHER -> Field_dehydrate(value)

\* BaseValueObject.dehydrate with the result keyed by the attribute name instead of
\* field.key.
BaseValueObject_dehydrate_by_name(h, self) ==
    LET fs == Fields(h[self].type) IN
    [name \in AttrNames(h[self].type) |->
        LET a == fs[CHOOSE i \in 1..Len(fs) : fs[i].attr = name]
        IN  dehydrate(h, a.field, Get(h[self].values, a.attr))]

\* BaseValueObject.dehydrate:
\* {field.key: field.dehydrate(self._values.get(name)) for name, field in fields.items()}
BaseValueObject_dehydrate(h, self) ==
    LET fs == Fields(h[self].type) IN
    [key \in FieldKeys(fs) |->
        LET a == LastWithKey(fs, key) IN dehydrate(h, a.field, Get(h[self].values, a.attr))]

(***************************************************************************)
(* hydrate: Field.hydrate and its overrides, ValueObjectMeta.hydrate and   *)
(* hydrate_values.                                                         *)
(***************************************************************************)
RECURSIVE hydrate(_, _)
RECURSIVE ValueObjectMeta_hydrate_values(_, _)

\* Collection.hydrate
Collection_hydrate(f, value) ==
    IF value = None THEN Dict(EmptyMap)
    ELSE Dict([x \in DOMAIN value.m |-> hydrate(f.sub_field, value.m[x])])

\* ValueObject.hydrate: self.vo_type.hydrate_values(value or {}), a dict, not an instance.
ValueObject_hydrate(f, value) ==
    Dict(ValueObjectMeta_hydrate_values(f.vo_type, IF Falsy(value) THEN EmptyMap ELSE value.m))

hydrate(f, value) ==
    CASE f.kind = "Collection" -> Collection_hydrate(f, value)
      [] f.kind = "ValueObject" -> ValueObject_hydrate(f, value)
      [] f.kind = "Bytes" -> Bytes_hydrate(value)
      [] f.kind = "Date" -> Date_hydrate(value)
      [] f.kind = "Datetime" -> Datetime_hydrate(value)
      [] f.kind = "Decimal" -> Decimal_hydrate(value)
      [] OTHER -> Field_hydrate(value)

\* ValueObjectMeta.hydrate_values:
\* {field.key or name: field.hydrate(dehydrated.get(field.key or name)) ...}
ValueObjectMeta_hydrate_values(T, dehydrated) ==
    LET fs == Fields(T) IN
    [key \in FieldKeys(fs) |->
        LET a == LastWithKey(fs, key) IN hydrate(a.field, Get(dehydrated, key))]

RECURSIVE Failures(_)
\* The exceptions raised while value v was computed, at any depth.
Failures(v) ==
    CASE v.k = "raised" -> {v}
      [] v.k = "dict" -> UNION {Failures(v.m[x]) : x \in DOMAIN v.m}
      [] OTHER -> {}

\* ValueObjectMeta.hydrate: cls(cls.hydrate_values(dehydrated or {})).  An exception
\* raised by a field's hydrate leaves hydrate_values, and hydrate, before cls is called.
ValueObjectMeta_hydrate(h, T, dehydrated) ==
    LET values == ValueObjectMeta_hydrate_values(T,
                      IF Falsy(dehydrated) THEN EmptyMap ELSE dehydrated.m)
    IN  IF Failures(Dict(values)) # {}
        THEN [h |-> h, v |-> Pick(Failures(Dict(values)))]
        ELSE BaseValueObject_init(h, T, values)

(***************************************************************************)
(* Public values: Field.make_public_value and its overrides,               *)
(* BaseValueObject.get_public_values and get_public_field_keys.            *)
(***************************************************************************)
RECURSIVE make_public_value(_, _, _)
RECURSIVE BaseValueObject_get_public_values(_, _, _)

\* get_public_field_keys letting an explicitly selected key through whatever the
\* field's public setting.
BaseValueObject_get_public_field_keys_selected(h, self, fields) ==
    LET fs == Fields(h[self].type) IN
    {fs[i].field.key : i \in {j \in 1..Len(fs) :
        \/ fields = {} /\ PublicTruthy(fs[j].field.public)
        \/ fs[j].field.key \in fields}}

\* get_public_field_keys without the test of field.public.
BaseValueObject_get_public_field_keys_unfiltered(h, self, fields) ==
    LET fs == Fields(h[self].type) IN
    {fs[i].field.key : i \in {j \in 1..Len(fs) : fields = {} \/ fs[j].field.key \in fields}}

\* BaseValueObject.get_public_field_keys(*fields): `fields` is the set of names given.
BaseValueObject_get_public_field_keys(h, self, fields) ==
    LET fs == Fields(h[self].type) IN
    {fs[i].field.key : i \in {j \in 1..Len(fs) :
        /\ (fields = {} \/ fs[j].field.key \in fields)
        /\ PublicTruthy(fs[j].field.public)}}

\* Collection.make_public_value taking every key of the value, whatever self.public is.
Collection_make_public_value_all(h, f, value) ==
    IF value = None THEN Dict(EmptyMap)
    ELSE Dict([x \in DOMAIN value.m |-> make_public_value(h, f.sub_field, value.m[x])])

\* Collection.make_public_value
Collection_make_public_value(h, f, value) ==
    IF value = None THEN Dict(EmptyMap)
    ELSE LET fields == IF f.public.isset THEN f.public.keys ELSE DOMAIN value.m IN
         Dict([x \in (DOMAIN value.m) \cap fields |->
                  make_public_value(h, f.sub_field, value.m[x])])

\* ValueObject.make_public_value passing no field selection, whatever self.public is.
ValueObject_make_public_value_unrestricted(h, f, value) ==
    IF value = None THEN None
    ELSE Dict(BaseValueObject_get_public_values(h, value.id, {}))

\* ValueObject.make_public_value
ValueObject_make_public_value(h, f, value) ==
    LET fields == IF f.public.isset THEN f.public.keys ELSE {} IN
    IF value = None THEN None
    ELSE Dict(BaseValueObject_get_public_values(h, value.id, fields))

make_public_value(h, f, value) ==
    CASE f.kind = "Collection" -> Collection_make_public_value(h, f, value)
      [] f.kind = "ValueObject" -> ValueObject_make_public_value(h, f, value)
      [] f.kind = "Date" -> Date_make_public_value(value)
      [] f.kind = "Datetime" -> Datetime_make_public_value(value)
      [] f.kind = "Decimal" -> Decimal_make_public_value(value)
      [] OTHER -> dehydrate(h, f, value)

\* BaseValueObject.get_public_values(*fields)
BaseValueObject_get_public_values(h, self, fields) ==
    LET fs == Fields(h[self].type)
        public_fields == BaseValueObject_get_public_field_keys(h, self, fields)
    IN  [key \in FieldKeys(fs) \cap public_fields |->
            LET a == LastWithKey(fs, key)
            IN  make_public_value(h, a.field, Get(h[self].values, a.attr))]

(***************************************************************************)
(* The inputs the caller draws from: in-memory values for construct, and   *)
(* stored (dehydrated) values for hydrate.  Raw mappings hold plain data   *)
(* only (no value-object instances), and any key may be absent or None.    *)
(***************************************************************************)
\* Keys used in Collection values.
CollectionKeys == {"home", "work"}

\* Keys used in the values of the collections declared with visibility settings.
VisibilityKeys == {"alpha", "bravo", "charlie"}

\* The keys a caller uses in the values of Collection field f.
KeysFor(f) ==
    IF f.key \in {"publicCollection", "privateCollection", "partialCollection"}
    THEN VisibilityKeys ELSE CollectionKeys

PrimValues == {Prim(n) : n \in 1..MaxVal}

\* b'hi', b'I\xc3\xb1t' ('Int' with n-tilde)
SampleBytes == {BytesVal(<<104, 105>>), BytesVal(<<73, 195, 177, 116>>)}

SampleDates == {DateVal(2015, 9, 22), DateVal(1979, 12, 7)}

\* 17:58:36 UTC; the same instant in a +02:00 zone; and the UTC wall clock without tzinfo.
SampleDatetimes ==
    { DatetimeVal(2015, 9, 22, 17, 58, 36, 0, "aware", 0),
      DatetimeVal(2015, 9, 22, 19, 58, 36, 0, "aware", 120),
      DatetimeVal(2015, 9, 22, 17, 58, 36, 0, "naive", 0) }

\* Decimal('2.6E-2'), Decimal('1E+2'), Decimal('-1.50')
SampleDecimals == {DecimalVal(0, 26, -3), DecimalVal(0, 1, 2), DecimalVal(1, 150, -2)}

\* All partial maps from `keys` to V.
PartialMaps(keys, V) == UNION {[S -> V] : S \in SUBSET keys}

RECURSIVE RawValues(_)
RECURSIVE RawMappingsFrom(_, _)

\* The raw mappings over the keys of fields i.. of fs: each key absent, None or a value.
RawMappingsFrom(fs, i) ==
    IF i > Len(fs) THEN {EmptyMap}
    ELSE LET rest == RawMappingsFrom(fs, i + 1) IN
         rest \cup {DictUpdate(m, fs[i].field.key :> v) : m \in rest, v \in RawValues(fs[i].field)}

RawMappings(T) == RawMappingsFrom(Fields(T), 1)

\* The in-memory values a caller may give for field f (None included).
RawValues(f) ==
    {None} \cup
    CASE f.kind = "Primitive" -> PrimValues
      [] f.kind = "Bytes" -> SampleBytes
      [] f.kind = "Date" -> SampleDates
      [] f.kind = "Datetime" -> SampleDatetimes
      [] f.kind = "Decimal" -> SampleDecimals
      [] f.kind = "Collection" ->
            {Dict(m) : m \in PartialMaps(KeysFor(f), RawValues(f.sub_field))}
      [] f.kind = "ValueObject" -> {Dict(m) : m \in RawMappings(f.vo_type)}

RECURSIVE StoredValues(_)
RECURSIVE StoredMappingsFrom(_, _)

StoredMappingsFrom(fs, i) ==
    IF i > Len(fs) THEN {EmptyMap}
    ELSE LET rest == StoredMappingsFrom(fs, i + 1) IN
         rest \cup {DictUpdate(m, fs[i].field.key :> v) : m \in rest, v \in StoredValues(fs[i].field)}

StoredMappings(T) == StoredMappingsFrom(Fields(T), 1)

\* The stored values a session may hold for field f: what dehydrate writes, or None.
StoredValues(f) ==
    {None} \cup
    CASE f.kind = "Collection" ->
            {Dict(m) : m \in PartialMaps(KeysFor(f), StoredValues(f.sub_field))}
      [] f.kind = "ValueObject" -> {Dict(m) : m \in StoredMappings(f.vo_type)}
      [] OTHER -> {dehydrate(EmptyMap, f, v) : v \in RawValues(f)}

(***************************************************************************)
(* The caller: variables holding instances of one class, built by          *)
(* construct or hydrate and combined by update.                            *)
(***************************************************************************)
TopLevelTypes ==
    {"SimpleTestValueObject", "TypedTestValueObject", "ComplexTestValueObject",
     "TestApplicantObject"}

\* The classes declared with visibility settings.
VisibilityTypes ==
    {"PartialVisibilitySimpleTestValueObject", "PartialVisibilityComplexTestValueObject"}

AllTypes == TopLevelTypes \cup VisibilityTypes

RECURSIVE SampleRaw(_)
\* One fully populated in-memory value of field f.
SampleRaw(f) ==
    CASE f.kind = "Primitive" -> Prim(1)
      [] f.kind = "Bytes" -> BytesVal(<<104, 105>>)
      [] f.kind = "Date" -> DateVal(2015, 9, 22)
      [] f.kind = "Datetime" -> DatetimeVal(2015, 9, 22, 17, 58, 36, 0, "aware", 0)
      [] f.kind = "Decimal" -> DecimalVal(0, 26, -3)
      [] f.kind = "Collection" -> Dict([x \in KeysFor(f) |-> SampleRaw(f.sub_field)])
      [] f.kind = "ValueObject" ->
            LET fs == Fields(f.vo_type) IN
            Dict([key \in FieldKeys(fs) |-> SampleRaw(LastWithKey(fs, key).field)])

\* A key no class declares: an attribute name that is not the field's key.
UndeclaredKey == "favorite_color"

\* The mappings that differ from `row` in at most one key, which is absent or holds any
\* of the raw (or stored) values of its field, or that hold an undeclared key besides.
OneKeyChanged(T, row, form) ==
    LET fs == Fields(T)
        vals(f) == IF form = "stored" THEN StoredValues(f) ELSE RawValues(f)
    IN
    {row, DictUpdate(row, UndeclaredKey :> Prim(1))}
    \cup {[key \in (DOMAIN row) \ {fs[i].field.key} |-> row[key]] : i \in 1..Len(fs)}
    \cup UNION {{DictUpdate(row, fs[i].field.key :> v) : v \in vals(fs[i].field)} : i \in 1..Len(fs)}

\* The raw mappings a caller constructs class T from: the empty mapping or a fully
\* populated one, with at most one key changed.  Two instances can differ in every
\* way in any one field, while the other fields are all absent or all populated.
RawRows(T) ==
    LET fs == Fields(T) IN
    {EmptyMap, [key \in FieldKeys(fs) |-> SampleRaw(LastWithKey(fs, key).field)]}

RawPool ==
    [T \in AllTypes |-> UNION {OneKeyChanged(T, row, "raw") : row \in RawRows(T)}]

RECURSIVE SampleStored(_)
\* The stored form of SampleRaw(f).
SampleStored(f) ==
    CASE f.kind = "Collection" -> Dict([x \in KeysFor(f) |-> SampleStored(f.sub_field)])
      [] f.kind = "ValueObject" ->
            LET fs == Fields(f.vo_type) IN
            Dict([key \in FieldKeys(fs) |-> SampleStored(LastWithKey(fs, key).field)])
      [] OTHER -> dehydrate(EmptyMap, f, SampleRaw(f))

\* The stored mappings class T is hydrated from (and None: nothing stored).
StoredRows(T) ==
    LET fs == Fields(T) IN
    {EmptyMap, [key \in FieldKeys(fs) |-> SampleStored(LastWithKey(fs, key).field)]}

StoredPool ==
    [T \in AllTypes |->
        {None} \cup {Dict(m) : m \in UNION {OneKeyChanged(T, row, "stored") :
                                               row \in StoredRows(T)}}]

\* Stored text that does not match a Date field's format: a datetime's text, and the
\* 30th of February.
MalformedDates ==
    {Text(FormatDate(d) \o <<32>> \o FormatTime(d)) : d \in SampleDatetimes}
    \cup {Text(<<50, 48, 49, 53, 45, 48, 50, 45, 51, 48>>)}

\* Stored text that does not match a Datetime field's format: ISO text with 'T', and a
\* date without a time.
MalformedDatetimes ==
    {Text(FormatDate(d) \o <<84>> \o FormatTime(d)) : d \in SampleDatetimes}
    \cup {Text(FormatDate(d)) : d \in SampleDates}

RECURSIVE MalformedStored(_)
\* The stored values of field f that hold malformed text in a Date or Datetime, in
\* the field itself, in one element of a Collection, or in one field of a nested mapping.
MalformedStored(f) ==
    CASE f.kind = "Date" -> MalformedDates
      [] f.kind = "Datetime" -> MalformedDatetimes
      [] f.kind = "Collection" ->
            {Dict(DictUpdate(m, x :> bad)) :
                m \in {EmptyMap, SampleStored(f).m}, x \in KeysFor(f),
                bad \in MalformedStored(f.sub_field)}
      [] f.kind = "ValueObject" ->
            LET fs == Fields(f.vo_type) IN
            UNION {{Dict(DictUpdate(SampleStored(f).m, fs[i].field.key :> bad)) :
                        bad \in MalformedStored(fs[i].field)} : i \in 1..Len(fs)}
      [] OTHER -> {}

\* The stored mappings of class T in which one field holds malformed text.
MalformedPool ==
    [T \in AllTypes |->
        UNION {{Dict(DictUpdate(row, Fields(T)[i].field.key :> bad)) :
                    row \in StoredRows(T), bad \in MalformedStored(Fields(T)[i].field)} :
               i \in 1..Len(Fields(T))}]

Slots == DOMAIN roots

Bound(s) == roots[s] # 0

\* Variables are bound in order.
NextSlot(s) == ~Bound(s) /\ \A t \in Slots : t < s => Bound(t)

\* The keys of class T for which the mapping `data` has no entry or None.
NullKeys(T, data) == {key \in FieldKeys(Fields(T)) : Get(data, key) = None}

\* `last` records the operation just performed: its name, the variables it was applied
\* to, for construct and hydrate the keys of the mapping given and those among the
\* class's keys it left out or gave as None, for update the values the receiver held
\* before, and for a direct call of a field's method the field, the operands and the
\* value returned.  `arg` is the mapping variable `a` was built from, for as long as
\* the instance has only been read since; `sel` is the selection given to
\* get_public_values.
NoField == [kind |-> "none"]

Op(op, a, b, keys, nulls, pre) ==
    [op |-> op, a |-> a, b |-> b, keys |-> keys, nulls |-> nulls, pre |-> pre,
     f |-> NoField, e |-> None, i |-> None, ret |-> None, arg |-> None, sel |-> {}]

InitWith(types, n) ==
    /\ heap = EmptyMap
    /\ roots = [s \in 1..n |-> 0]
    /\ vtype \in types
    /\ last = Op("none", 0, 0, {}, {}, EmptyMap)
    /\ table = EmptyMap
    /\ stores = <<>>

\* roots[s] = T(raw), for any class T
ConstructAs(s, T, raw) ==
    /\ NextSlot(s)
    /\ LET r == BaseValueObject_init(heap, T, raw) IN
        /\ heap' = r.h
        /\ roots' = [roots EXCEPT ![s] = r.v.id]
    /\ last' = [Op("construct", s, 0, DOMAIN raw, NullKeys(T, raw), EmptyMap) EXCEPT
                    !.arg = Dict(raw)]
    /\ UNCHANGED <<vtype, table, stores>>

\* roots[s] = vtype(raw)
Construct(s, raw) == ConstructAs(s, vtype, raw)

\* roots[s] = T.hydrate(stored); when hydrate raises, nothing is assigned.  r is what
\* hydrate returned or raised, m the mapping it was given.
Hydrate_assign(s, stored, r, m) ==
    IF r.v.k = "raised"
    THEN /\ last' = [Op("hydrate raised", s, 0, DOMAIN m, NullKeys(vtype, m), EmptyMap)
                        EXCEPT !.arg = stored, !.ret = r.v]
         /\ UNCHANGED <<heap, roots>>
    ELSE /\ heap' = r.h
         /\ roots' = [roots EXCEPT ![s] = r.v.id]
         /\ last' = [Op("hydrate", s, 0, DOMAIN m, NullKeys(vtype, m), EmptyMap) EXCEPT
                         !.arg = stored]

Hydrate(s, stored) ==
    /\ NextSlot(s)
    /\ Hydrate_assign(s, stored, ValueObjectMeta_hydrate(heap, vtype, stored),
                      IF Falsy(stored) THEN EmptyMap ELSE stored.m)
    /\ UNCHANGED <<vtype, table, stores>>

RECURSIVE Snapshot(_, _)
\* A copy of value v as it is in heap h, nested instances included.
Snapshot(h, v) ==
    CASE v.k = "ref" ->
            [k |-> "obj", id |-> v.id, type |-> h[v.id].type,
             m |-> [attr \in DOMAIN h[v.id].values |-> Snapshot(h, h[v.id].values[attr])]]
      [] v.k = "dict" -> Dict([x \in DOMAIN v.m |-> Snapshot(h, v.m[x])])
      [] OTHER -> v

\* roots[a].update(roots[b])
Update(a, b) ==
    /\ Bound(a) /\ Bound(b)
    /\ heap' = BaseValueObject_update(heap, roots[a], roots[b])
    /\ last' = Op("update", a, b, {}, {}, Snapshot(heap, Ref(roots[a])).m)
    /\ UNCHANGED <<roots, vtype, table, stores>>

Next ==
    \/ \E s \in {t \in Slots : NextSlot(t)} : \E raw \in RawPool[vtype] :
          Construct(s, raw)
    \/ \E s \in {t \in Slots : NextSlot(t)} : \E stored \in StoredPool[vtype] :
          Hydrate(s, stored)
    \/ \E a, b \in {t \in Slots : Bound(t)} : Update(a, b)

\* Two variables a and b (slots 1 and 2) of any one of the classes.
Init == InitWith(TopLevelTypes, 2)

Spec == Init /\ [][Next]_vars

(***************************************************************************)
(* Direct calls of field.merge, on the values a bound instance holds: the  *)
(* class's fields with their values, a Collection's sub_field with its     *)
(* elements, and the fields of nested instances.                           *)
(***************************************************************************)
RECURSIVE SitesOf(_, _)
RECURSIVE SiteValues(_, _, _)

SiteValues(h, f, v) ==
    {[f |-> f, v |-> v]}
    \cup (IF f.kind = "Collection" /\ v.k = "dict"
          THEN UNION {SiteValues(h, f.sub_field, v.m[x]) : x \in DOMAIN v.m}
          ELSE IF f.kind = "ValueObject" /\ v.k = "ref" THEN SitesOf(h, v.id)
          ELSE {})

SitesOf(h, id) ==
    LET fs == Fields(h[id].type) IN
    UNION {SiteValues(h, fs[i].field, Get(h[id].values, fs[i].attr)) : i \in 1..Len(fs)}

Sites == UNION {SitesOf(heap, roots[s]) : s \in {t \in Slots : Bound(t)}}

\* ret = f.merge(e, i)
MergeCall(f, e, i) ==
    /\ LET r == merge(heap, f, e, i) IN
        /\ heap' = r.h
        /\ last' = [Op("merge", 0, 0, {}, {}, EmptyMap) EXCEPT
                        !.f = f, !.e = e, !.i = i, !.ret = r.v]
    /\ UNCHANGED <<roots, vtype, table, stores>>

NextField ==
    \/ Next
    \/ \E x, y \in Sites : x.f = y.f /\ \E e \in {None, x.v}, i \in {None, y.v} :
          MergeCall(x.f, e, i)

\* One variable, and the field-level calls on what it holds.
InitField == InitWith(TopLevelTypes, 1)

SpecField == InitField /\ [][NextField]_vars

(***************************************************************************)
(* Reading an instance: dehydrate and get_public_values, and direct calls  *)
(* of the other methods of the fields on the values the instance holds.    *)
(***************************************************************************)
\* The mapping variable s was constructed from, when nothing but reads happened since.
ArgOf(s) ==
    IF last.a = s /\ last.op \in {"construct", "dehydrate", "get_public_values"}
    THEN last.arg ELSE None

\* ret = roots[s].dehydrate()
Dehydrate(s) ==
    /\ Bound(s)
    /\ last' = [Op("dehydrate", s, 0, {}, {}, EmptyMap) EXCEPT
                    !.ret = Dict(BaseValueObject_dehydrate(heap, roots[s])),
                    !.arg = ArgOf(s)]
    /\ UNCHANGED <<heap, roots, vtype, table, stores>>

\* ret = roots[s].get_public_values(*sel)
GetPublicValues(s, sel) ==
    /\ Bound(s)
    /\ last' = [Op("get_public_values", s, 0, {}, {}, EmptyMap) EXCEPT
                    !.ret = Dict(BaseValueObject_get_public_values(heap, roots[s], sel)),
                    !.arg = ArgOf(s), !.sel = sel]
    /\ UNCHANGED <<heap, roots, vtype, table, stores>>

\* The selections a caller passes to get_public_values of class T: none, one field
\* key, a name no field has, every key, or every attribute name.
Selections(T) ==
    LET keys == FieldKeys(Fields(T))
        names == AttrNames(T)
    IN  {{}} \cup {{x} : x \in keys \cup {"foo"}} \cup {keys, names}

\* ret = f.init(value); the value made is not stored anywhere.
InitCall(f, value) ==
    /\ LET r == init(heap, f, value) IN
        last' = [Op("field.init", 0, 0, {}, {}, EmptyMap) EXCEPT
                    !.f = f, !.i = value, !.ret = Snapshot(r.h, r.v)]
    /\ UNCHANGED <<heap, roots, vtype, table, stores>>

\* ret = f.dehydrate(e)
DehydrateCall(f, e) ==
    /\ last' = [Op("field.dehydrate", 0, 0, {}, {}, EmptyMap) EXCEPT
                    !.f = f, !.e = e, !.ret = dehydrate(heap, f, e)]
    /\ UNCHANGED <<heap, roots, vtype, table, stores>>

\* ret = f.hydrate(i), where i = f.dehydrate(e) or None
HydrateCall(f, e, i) ==
    /\ last' = [Op("field.hydrate", 0, 0, {}, {}, EmptyMap) EXCEPT
                    !.f = f, !.e = e, !.i = i, !.ret = hydrate(f, i)]
    /\ UNCHANGED <<heap, roots, vtype, table, stores>>

\* ret = f.make_public_value(e)
MakePublicValueCall(f, e) ==
    /\ last' = [Op("field.make_public_value", 0, 0, {}, {}, EmptyMap) EXCEPT
                    !.f = f, !.e = e, !.ret = make_public_value(heap, f, e)]
    /\ UNCHANGED <<heap, roots, vtype, table, stores>>

NextView ==
    \/ Next
    \/ \E s \in {t \in Slots : Bound(t)} : Dehydrate(s)
    \/ \E s \in {t \in Slots : Bound(t)} : \E sel \in Selections(vtype) :
          GetPublicValues(s, sel)

\* One variable of any class, the visibility classes included, dehydrated and read
\* through get_public_values with every kind of selection.
InitView == InitWith(AllTypes, 1)

SpecView == InitView /\ [][NextView]_vars

NextPublic ==
    \/ Next
    \/ \E s \in {t \in Slots : Bound(t)} : GetPublicValues(s, {})
    \/ \E x \in Sites : \E e \in {None, x.v} : MakePublicValueCall(x.f, e)

\* One variable of any class, its public values, and direct calls of
\* field.make_public_value on what it holds.
InitPublic == InitWith(AllTypes, 1)

SpecPublic == InitPublic /\ [][NextPublic]_vars

NextCall ==
    \/ NextField
    \/ \E x \in Sites : \E value \in {None, SampleRaw(x.f)} : InitCall(x.f, value)
    \/ \E x \in Sites : \E e \in {None, x.v} : DehydrateCall(x.f, e)
    \/ \E x \in Sites : \E e \in {None, x.v} :
          HydrateCall(x.f, e, IF e = None THEN None ELSE dehydrate(heap, x.f, e))
    \/ \E x \in Sites : \E e \in {None, x.v} : MakePublicValueCall(x.f, e)

\* One variable, and direct calls of every method of the fields on what it holds.
InitCalls == InitWith(TopLevelTypes, 1)

SpecCall == InitCalls /\ [][NextCall]_vars

\* The classes that declare an attribute of the same name (`name`).
SameNameTypes == {"SimpleTestValueObject", "TestApplicantObject"}

NextMixed ==
    \/ Next
    \/ \E s \in {t \in Slots : NextSlot(t)} : \E T \in SameNameTypes \ {vtype} :
          \E raw \in RawPool[T] : ConstructAs(s, T, raw)

\* Two variables that may hold instances of different classes.
InitMixed == InitWith(SameNameTypes, 2)

SpecMixed == InitMixed /\ [][NextMixed]_vars

NextStored ==
    \/ Next
    \/ \E s \in {t \in Slots : NextSlot(t)} : \E stored \in MalformedPool[vtype] :
          Hydrate(s, stored)

\* One variable, hydrated from what the storage holds, malformed date text included.
InitStored == InitWith(TopLevelTypes, 1)

SpecStored == InitStored /\ [][NextStored]_vars

(***************************************************************************)
(* Properties.                                                             *)
(***************************************************************************)
Instances == DOMAIN heap

\* C1: every instance, top-level or nested, after construct, hydrate and any sequence
\* of updates, has a value mapping with exactly one entry per attribute its class
\* declares: none missing, none undeclared, whatever keys the mapping given had.
C1_ExactlyDeclaredFields ==
    \A id \in Instances : DOMAIN heap[id].values = AttrNames(heap[id].type)

\* C1 witness: an instance was just built from a mapping whose only key is one its
\* class does not declare as a key (it is the name of an attribute whose key differs);
\* it has every declared attribute, and that attribute is null.
C1_Witness ==
    /\ last.op \in {"construct", "hydrate"}
    /\ vtype = "SimpleTestValueObject"
    /\ last.keys = {UndeclaredKey}
    /\ last.nulls = {"name", "age", "favoriteColor"}
    /\ DOMAIN heap[roots[last.a]].values = {"name", "age", "favorite_color"}
    /\ heap[roots[last.a]].values["favorite_color"] = None

ScalarKinds == {"Primitive", "Bytes", "Date", "Datetime", "Decimal"}

\* The value instance id holds for attribute attr in heap h.
ValueOf(h, id, attr) == h[id].values[attr]

\* C2: a step a.update(b) leaves in every scalar field of a the value b had when that
\* value is not null, and the value a had before when b's is null.
C2_ScalarUpdate ==
    [][last'.op = "update" =>
        \A i \in 1..Len(Fields(vtype)) :
            LET f == Fields(vtype)[i]
                was == ValueOf(heap, roots[last'.a], f.attr)
                given == ValueOf(heap, roots[last'.b], f.attr)
            IN  f.field.kind \in ScalarKinds =>
                    ValueOf(heap', roots'[last'.a], f.attr)
                        = (IF given # None THEN given ELSE was)]_vars

\* C2 witness: after a.update(b) with b another instance, a has taken from b a scalar
\* value it did not hold before, and keeps its value in a field where b has null.
C2_Witness ==
    /\ last.op = "update" /\ last.a # last.b
    /\ vtype = "TypedTestValueObject"
    /\ \E i, j \in 1..Len(Fields(vtype)) :
        LET fi == Fields(vtype)[i]
            fj == Fields(vtype)[j]
        IN  /\ fi.field.kind \in ScalarKinds /\ fj.field.kind \in ScalarKinds
            /\ ValueOf(heap, roots[last.b], fi.attr) # None
            /\ ValueOf(heap, roots[last.a], fi.attr) = ValueOf(heap, roots[last.b], fi.attr)
            /\ last.pre[fi.attr] \notin {None, ValueOf(heap, roots[last.b], fi.attr)}
            /\ ValueOf(heap, roots[last.b], fj.attr) = None
            /\ ValueOf(heap, roots[last.a], fj.attr) # None

\* The state of a value in heap h, nested instances included: the instance's stored
\* form for a reference, the value itself otherwise.
StateOf(h, v) == IF v.k = "ref" THEN BaseValueObject_dehydrate(h, v.id) ELSE v

CollectionAttrs(T) ==
    {i \in 1..Len(Fields(T)) : Fields(T)[i].field.kind = "Collection"}

\* C3: a step a.update(b) leaves in every Collection field of a the key-wise union of
\* what a and b held: the keys of both; under a key only a had, a's element untouched;
\* under a key only b had, b's element; under a key both had, the sub-field's merge of
\* the two (for a scalar sub-field b's element unless it is null, for a nested value
\* object a's own element, merged in place).
C3_CollectionUnion ==
    [][last'.op = "update" =>
        \A i \in CollectionAttrs(vtype) :
            LET f == Fields(vtype)[i]
                existing == ValueOf(heap, roots[last'.a], f.attr).m
                incoming == ValueOf(heap, roots[last'.b], f.attr).m
                result == ValueOf(heap', roots'[last'.a], f.attr)
            IN  /\ result.k = "dict"
                /\ DOMAIN result.m = DOMAIN existing \cup DOMAIN incoming
                /\ \A x \in DOMAIN existing \ DOMAIN incoming :
                      /\ result.m[x] = existing[x]
                      /\ StateOf(heap', result.m[x]) = StateOf(heap, existing[x])
                /\ \A x \in DOMAIN incoming \ DOMAIN existing :
                      StateOf(heap', result.m[x]) = StateOf(heap, incoming[x])
                /\ \A x \in DOMAIN existing \cap DOMAIN incoming :
                      IF f.field.sub_field.kind \in ScalarKinds
                      THEN result.m[x] = (IF incoming[x] # None THEN incoming[x] ELSE existing[x])
                      ELSE result.m[x] = existing[x]]_vars

\* C3 witness: after a.update(b) on the class with Primitive and Date collections, a
\* collection of a has a key only a had, a collection of a has a key only b had, and a
\* collection of a has, under a key both had, b's element, which a did not hold before.
C3_Witness ==
    /\ last.op = "update" /\ last.a # last.b
    /\ vtype = "ComplexTestValueObject"
    /\ LET b == heap[roots[last.b]].values
           a == heap[roots[last.a]].values
           Colls == {"simple", "dates"}
       IN  /\ \E c \in Colls : \E x \in DOMAIN last.pre[c].m \ DOMAIN b[c].m :
                a[c].m[x] = last.pre[c].m[x]
           /\ \E c \in Colls : \E x \in DOMAIN b[c].m \ DOMAIN last.pre[c].m :
                a[c].m[x] = b[c].m[x]
           /\ \E c \in Colls : \E x \in DOMAIN last.pre[c].m \cap DOMAIN b[c].m :
                /\ b[c].m[x] \notin {None, last.pre[c].m[x]}
                /\ a[c].m[x] = b[c].m[x]

\* In heap h2, instance r holds in every field the value instance y held in heap h1
\* unless that is null, and else the value instance x held in h1 (the fields of the
\* nested classes are all scalar).
MergedFieldByField(h1, x, y, h2, r) ==
    /\ h2[r].type = h1[x].type
    /\ \A attr \in AttrNames(h1[x].type) :
          ValueOf(h2, r, attr) = (IF ValueOf(h1, y, attr) # None THEN ValueOf(h1, y, attr)
                                  ELSE ValueOf(h1, x, attr))

\* C4: a step a.update(b) on the class with a nested value object and a Collection of
\* nested value objects merges at every level.  The nested field is still a's own
\* instance, merged field by field with b's.  In the collection, an element only a had
\* is a's instance, untouched; an element both had is a's instance, merged field by
\* field with b's; an element only b had is there, with the fields b's element had;
\* and every element is an instance of the nested class.
C4_NestedMerge ==
    [][last'.op = "update" /\ vtype = "TestApplicantObject" =>
        LET a == heap[roots[last'.a]].values
            b == heap[roots[last'.b]].values
            r == heap'[roots'[last'.a]].values
        IN  /\ r["loan"] = a["loan"]
            /\ MergedFieldByField(heap, a["loan"].id, b["loan"].id, heap', r["loan"].id)
            /\ DOMAIN r["addresses"].m = DOMAIN a["addresses"].m \cup DOMAIN b["addresses"].m
            /\ \A x \in DOMAIN a["addresses"].m \ DOMAIN b["addresses"].m :
                  /\ r["addresses"].m[x] = a["addresses"].m[x]
                  /\ heap'[r["addresses"].m[x].id] = heap[a["addresses"].m[x].id]
            /\ \A x \in DOMAIN a["addresses"].m \cap DOMAIN b["addresses"].m :
                  /\ r["addresses"].m[x] = a["addresses"].m[x]
                  /\ MergedFieldByField(heap, a["addresses"].m[x].id, b["addresses"].m[x].id,
                                        heap', r["addresses"].m[x].id)
            /\ \A x \in DOMAIN b["addresses"].m \ DOMAIN a["addresses"].m :
                  heap'[r["addresses"].m[x].id].values = heap[b["addresses"].m[x].id].values
            /\ \A x \in DOMAIN r["addresses"].m :
                  IsInstance(heap', r["addresses"].m[x], "TestAddressObject")]_vars

\* C4 witness: after a.update(b), a's nested loan has taken b's amount, which it did
\* not hold before; an address both had has taken b's street, which it did not hold
\* before; and an address only b had is in a.
C4_Witness ==
    /\ last.op = "update" /\ last.a # last.b
    /\ vtype = "TestApplicantObject"
    /\ LET a == Snapshot(heap, Ref(roots[last.a])).m
           b == Snapshot(heap, Ref(roots[last.b])).m
       IN  /\ b["loan"].m["amount"] \notin {None, last.pre["loan"].m["amount"]}
           /\ last.pre["loan"].m["amount"] # None
           /\ a["loan"].m["amount"] = b["loan"].m["amount"]
           /\ a["loan"].id = last.pre["loan"].id
           /\ \E x \in DOMAIN last.pre["addresses"].m \cap DOMAIN b["addresses"].m :
                /\ last.pre["addresses"].m[x].m["street"] # None
                /\ b["addresses"].m[x].m["street"]
                      \notin {None, last.pre["addresses"].m[x].m["street"]}
                /\ a["addresses"].m[x].m["street"] = b["addresses"].m[x].m["street"]
                /\ a["addresses"].m[x].id = last.pre["addresses"].m[x].id
           /\ \E x \in DOMAIN b["addresses"].m \ DOMAIN last.pre["addresses"].m :
                a["addresses"].m[x].m = b["addresses"].m[x].m

\* C5: a direct call field.merge(existing, incoming), for a field of any kind, returns
\* existing when incoming is null and incoming when existing is null, as long as the
\* other operand is an internal value of the field; a Collection field, whose internal
\* value is never null, returns the empty mapping when both operands are null.
C5_MergeIgnoresNull ==
    last.op = "merge" =>
        LET internal == last.f.kind # "Collection" IN
        /\ (last.i = None /\ (last.e # None \/ internal)) => last.ret = last.e
        /\ (last.e = None /\ (last.i # None \/ internal)) => last.ret = last.i
        /\ (last.e = None /\ last.i = None /\ ~internal) => last.ret = Dict(EmptyMap)

\* C5 witness: merge(null, incoming) was called on a Collection field with a non-empty
\* incoming mapping, and returned a mapping equal to it.
C5_Witness ==
    /\ last.op = "merge"
    /\ last.f.kind = "Collection"
    /\ last.e = None /\ last.i # None /\ DOMAIN last.i.m # {}
    /\ last.ret = last.i

\* C5 as stated: merge(existing, null) is existing and merge(null, incoming) is incoming
\* for every field kind and every operand.
C5_AsStated ==
    last.op = "merge" =>
        /\ last.i = None => last.ret = last.e
        /\ last.e = None => last.ret = last.i

\* C6: a step a.update(b) leaves b as it was: b.dehydrate() gives the same mapping
\* after the call as before it, and b's values at every nesting level are the same.
C6_ArgumentUnchanged ==
    [][last'.op = "update" =>
        /\ BaseValueObject_dehydrate(heap', roots'[last'.b])
              = BaseValueObject_dehydrate(heap, roots[last'.b])
        /\ Snapshot(heap', Ref(roots'[last'.b])) = Snapshot(heap, Ref(roots[last'.b]))]_vars

\* C6 witness: a.update(b) with b another instance has changed a at the top level, in
\* its nested instance and in an element of its collection that b has too.
C6_Witness ==
    /\ last.op = "update" /\ last.a # last.b
    /\ vtype = "TestApplicantObject"
    /\ LET a == Snapshot(heap, Ref(roots[last.a])).m IN
        /\ a["name"] # last.pre["name"]
        /\ a["loan"] # last.pre["loan"]
        /\ \E x \in DOMAIN last.pre["addresses"].m \cap DOMAIN heap[roots[last.b]].values["addresses"].m :
              a["addresses"].m[x] # last.pre["addresses"].m[x]

RECURSIVE Reach(_, _)
\* The instances reachable from value v in heap h.
Reach(h, v) ==
    CASE v.k = "ref" ->
            {v.id} \cup UNION {Reach(h, h[v.id].values[attr]) : attr \in DOMAIN h[v.id].values}
      [] v.k = "dict" -> UNION {Reach(h, v.m[x]) : x \in DOMAIN v.m}
      [] OTHER -> {}

\* The nested instances of top-level instance id.
NestedOf(h, id) == Reach(h, Ref(id)) \ {id}

\* C7: after any sequence of construct (from mappings of plain data), hydrate and
\* update, no nested instance is reachable from two distinct top-level instances.
C7_NoSharedNested ==
    \A s, t \in Slots :
        (Bound(s) /\ Bound(t) /\ s # t) =>
            NestedOf(heap, roots[s]) \cap NestedOf(heap, roots[t]) = {}

\* C8: a Collection field never holds null.  In every instance, after construct,
\* hydrate and any updates, its value is a mapping; right after construct or hydrate
\* from a mapping in which the field's key is absent or null it is the empty mapping;
\* and whenever it is the empty mapping its dehydrated and public forms are empty
\* mappings too.
C8_CollectionNeverNull ==
    /\ \A id \in Instances : \A i \in CollectionAttrs(heap[id].type) :
          LET f == Fields(heap[id].type)[i]
              v == ValueOf(heap, id, f.attr)
          IN  /\ v.k = "dict"
              /\ v.m = EmptyMap =>
                    /\ dehydrate(heap, f.field, v) = Dict(EmptyMap)
                    /\ make_public_value(heap, f.field, v) = Dict(EmptyMap)
    /\ last.op \in {"construct", "hydrate"} =>
          \A i \in CollectionAttrs(vtype) :
              LET f == Fields(vtype)[i] IN
              f.field.key \in last.nulls => ValueOf(heap, roots[last.a], f.attr) = Dict(EmptyMap)

\* C8 witness: an instance was hydrated from a stored mapping that gives null for one
\* collection and leaves the other out, and both are the empty mapping.
C8_Witness ==
    /\ last.op = "hydrate"
    /\ vtype = "ComplexTestValueObject"
    /\ last.keys = {"simpleCollection"}
    /\ last.nulls = {"simpleCollection", "dateCollection"}
    /\ ValueOf(heap, roots[last.a], "simple") = Dict(EmptyMap)
    /\ ValueOf(heap, roots[last.a], "dates") = Dict(EmptyMap)

\* The nested value-object values instance id holds: its ValueObject fields and the
\* elements of its Collections of value objects, each with its field.
NestedValues(h, id) ==
    LET fs == Fields(h[id].type) IN
    UNION {LET f == fs[i].field
               v == ValueOf(h, id, fs[i].attr)
           IN  IF f.kind = "ValueObject" THEN {[f |-> f, v |-> v]}
               ELSE IF f.kind = "Collection" /\ f.sub_field.kind = "ValueObject" /\ v.k = "dict"
               THEN {[f |-> f.sub_field, v |-> v.m[x]] : x \in DOMAIN v.m}
               ELSE {} : i \in 1..Len(fs)}

\* Instance id has null in every scalar field and an empty mapping in every collection.
AllNull(h, id) ==
    \A i \in 1..Len(Fields(h[id].type)) :
        LET f == Fields(h[id].type)[i]
            v == ValueOf(h, id, f.attr)
        IN  CASE f.field.kind \in ScalarKinds -> v = None
              [] f.field.kind = "Collection" -> v = Dict(EmptyMap)
              [] OTHER -> TRUE

\* C9: a nested value-object field never holds null.  In every instance, after
\* construct, hydrate and any updates, its value (and every element of a collection of
\* value objects) is an instance of the nested class; right after construct or hydrate
\* from a mapping in which the field's key is absent or null, that instance has null in
\* every scalar field and empty collections.
C9_NestedAlwaysInstance ==
    /\ \A id \in Instances : \A n \in NestedValues(heap, id) :
          IsInstance(heap, n.v, n.f.vo_type)
    /\ last.op \in {"construct", "hydrate"} =>
          \A i \in 1..Len(Fields(vtype)) :
              LET f == Fields(vtype)[i]
                  v == ValueOf(heap, roots[last.a], f.attr)
              IN  (f.field.kind = "ValueObject" /\ f.field.key \in last.nulls) =>
                      IsInstance(heap, v, f.field.vo_type) /\ AllNull(heap, v.id)

\* C9 witness: a.update(b) was called with b an all-null instance, whose nested loan is
\* an instance with a null amount, and a's loan is still a's instance with its amount.
C9_Witness ==
    /\ last.op = "update" /\ last.a # last.b
    /\ vtype = "TestApplicantObject"
    /\ LET a == heap[roots[last.a]].values
           b == heap[roots[last.b]].values
       IN  /\ b["name"] = None /\ b["addresses"] = Dict(EmptyMap)
           /\ IsInstance(heap, b["loan"], "TestLoanObject") /\ AllNull(heap, b["loan"].id)
           /\ IsInstance(heap, a["loan"], "TestLoanObject")
           /\ a["loan"].id = last.pre["loan"].id
           /\ ValueOf(heap, a["loan"].id, "amount") # None
           /\ ValueOf(heap, a["loan"].id, "amount") = last.pre["loan"].m["amount"]

\* Minutes from 0001-01-01 00:00 UTC to the instant of an aware datetime.
UtcMinutes(v) == (Ordinal(v.y, v.mo, v.d) - 1) * 1440 + v.H * 60 + v.M - v.off

\* datetime.__eq__: two aware datetimes are equal when they are the same instant, two
\* naive ones when their fields agree, and a naive one never equals an aware one.
DatetimeEq(v, w) ==
    IF v.tz = "naive" \/ w.tz = "naive"
    THEN v.tz = w.tz
         /\ <<v.y, v.mo, v.d, v.H, v.M, v.S, v.us>> = <<w.y, w.mo, w.d, w.H, w.M, w.S, w.us>>
    ELSE UtcMinutes(v) = UtcMinutes(w) /\ v.S = w.S /\ v.us = w.us

\* Decimal.__eq__: numeric equality, whatever the exponents.
DecimalEq(v, w) ==
    LET low == IF v.exp < w.exp THEN v.exp ELSE w.exp IN
    /\ v.coef * Pow10(v.exp - low) = w.coef * Pow10(w.exp - low)
    /\ (v.sign = w.sign \/ v.coef = 0)

RECURSIVE Equivalent(_, _, _, _)
\* Value v in heap h1 and value w in heap h2 are equal at every nesting level: equal
\* scalars (Python's ==), mappings with the same keys and equivalent elements,
\* instances of the same class with equivalent values.
Equivalent(h1, v, h2, w) ==
    CASE v.k # w.k -> FALSE
      [] v.k = "datetime" -> DatetimeEq(v, w)
      [] v.k = "decimal" -> DecimalEq(v, w)
      [] v.k = "dict" ->
            /\ DOMAIN v.m = DOMAIN w.m
            /\ \A x \in DOMAIN v.m : Equivalent(h1, v.m[x], h2, w.m[x])
      [] v.k = "ref" ->
            /\ h1[v.id].type = h2[w.id].type
            /\ DOMAIN h1[v.id].values = DOMAIN h2[w.id].values
            /\ \A attr \in DOMAIN h1[v.id].values :
                  Equivalent(h1, h1[v.id].values[attr], h2, h2[w.id].values[attr])
      [] OTHER -> v = w

\* The instance T.hydrate(x.dehydrate()) for the instance x of class T, in a heap.
RoundTrip(h, x) == ValueObjectMeta_hydrate(h, h[x].type, Dict(BaseValueObject_dehydrate(h, x)))

\* C10: for every instance x a variable holds, built by construct or hydrate or
\* reached by updates, T.hydrate(x.dehydrate()) is an instance equivalent to x: equal
\* field values at every nesting level.
C10_RoundTrip ==
    \A s \in Slots : Bound(s) =>
        LET r == RoundTrip(heap, roots[s]) IN Equivalent(heap, Ref(roots[s]), r.h, r.v)

RECURSIVE IsNullEquivalent(_, _)
\* Value v is what field f holds or yields for "nothing": the empty mapping for a
\* Collection, None for a scalar, and for a nested value object None or the mapping of
\* an instance whose every field is null-equivalent.
IsNullEquivalent(f, v) ==
    CASE f.kind = "Collection" -> v = Dict(EmptyMap)
      [] f.kind = "ValueObject" ->
            \/ v = None
            \/ /\ v.k = "dict"
               /\ LET fs == Fields(f.vo_type) IN
                  /\ DOMAIN v.m = FieldKeys(fs)
                  /\ \A key \in DOMAIN v.m :
                        IsNullEquivalent(LastWithKey(fs, key).field, v.m[key])
      [] OTHER -> v = None

\* C11: for every field kind and every non-null internal value x a field holds,
\* field.hydrate(field.dehydrate(x)) equals x; and field.dehydrate(null) and
\* field.hydrate(null) are the kind's null-equivalent.
C11_FieldRoundTrip ==
    /\ last.op = "field.hydrate" /\ last.e # None =>
          Equivalent(heap, last.e, heap, last.ret)
    /\ last.op = "field.hydrate" /\ last.e = None => IsNullEquivalent(last.f, last.ret)
    /\ last.op = "field.dehydrate" /\ last.e = None => IsNullEquivalent(last.f, last.ret)

\* The key a declaration is stored under: the key given, or the attribute name.
DeclaredKey(a) == IF a.field.key = NoKey THEN a.attr ELSE a.field.key

\* C12: x.dehydrate() has exactly one entry per declared field, under the field's key,
\* holding field.dehydrate of the value the attribute holds, whatever the field's
\* public setting; and construct and hydrate take each scalar field's value from the
\* entry under the field's key and expose it under the attribute name.
C12_DehydrateByKey ==
    LET decl == ClassAttrs(vtype)
        fs == Fields(vtype)
        given == IF Falsy(last.arg) THEN EmptyMap ELSE last.arg.m
    IN
    /\ last.op = "dehydrate" =>
          /\ DOMAIN last.ret.m = {DeclaredKey(decl[i]) : i \in 1..Len(decl)}
          /\ Cardinality(DOMAIN last.ret.m) = Len(decl)
          /\ \A i \in 1..Len(decl) :
                last.ret.m[DeclaredKey(decl[i])]
                    = dehydrate(heap, fs[i].field, ValueOf(heap, roots[last.a], decl[i].attr))
    /\ last.op = "construct" =>
          \A i \in 1..Len(decl) : decl[i].field.kind \in ScalarKinds =>
                ValueOf(heap, roots[last.a], decl[i].attr) = Get(given, DeclaredKey(decl[i]))
    /\ last.op = "hydrate" =>
          \A i \in 1..Len(decl) : decl[i].field.kind \in ScalarKinds =>
                ValueOf(heap, roots[last.a], decl[i].attr)
                    = hydrate(fs[i].field, Get(given, DeclaredKey(decl[i])))

\* C12 witness: an instance with a non-empty private collection and a nested instance
\* with a private value was dehydrated; both are in the result, under the fields' keys
\* and not under the attribute names.
C12_Witness ==
    /\ last.op = "dehydrate"
    /\ vtype = "PartialVisibilityComplexTestValueObject"
    /\ "privateCollection" \in DOMAIN last.ret.m
    /\ "private_collection" \notin DOMAIN last.ret.m
    /\ last.ret.m["privateCollection"] # Dict(EmptyMap)
    /\ last.ret.m["privateNested"].m["private"] # None

RECURSIVE PlainField(_)
\* Field f has Primitive leaves only and nothing private, at every level.
PlainField(f) ==
    /\ f.public = PubBool(TRUE)
    /\ CASE f.kind = "Primitive" -> TRUE
         [] f.kind = "Collection" -> PlainField(f.sub_field)
         [] f.kind = "ValueObject" ->
               \A i \in 1..Len(Fields(f.vo_type)) : PlainField(Fields(f.vo_type)[i].field)
         [] OTHER -> FALSE

PlainType(T) == \A i \in 1..Len(Fields(T)) : PlainField(Fields(T)[i].field)

RECURSIVE FullValue(_, _)
\* Raw value v supplies every key at every level of field f: a mapping with exactly
\* the declared keys for a nested value object, a mapping of such values for a
\* Collection.
FullValue(f, v) ==
    CASE f.kind = "Collection" ->
            v.k = "dict" /\ \A x \in DOMAIN v.m : FullValue(f.sub_field, v.m[x])
      [] f.kind = "ValueObject" ->
            /\ v.k = "dict"
            /\ LET fs == Fields(f.vo_type) IN
               /\ DOMAIN v.m = FieldKeys(fs)
               /\ \A key \in DOMAIN v.m : FullValue(LastWithKey(fs, key).field, v.m[key])
      [] OTHER -> TRUE

FullMapping(T, m) ==
    /\ DOMAIN m = FieldKeys(Fields(T))
    /\ \A key \in DOMAIN m : FullValue(LastWithKey(Fields(T), key).field, m[key])

\* C13: for a class whose leaves are all Primitive and which declares nothing private
\* (TestApplicantObject: name, loan with amount, addresses of objects with street), and
\* a raw mapping m supplying every key at every level, T(m).dehydrate() equals m and
\* T(m).get_public_values() equals m.
C13_EndToEnd ==
    (/\ PlainType(vtype)
     /\ last.op \in {"dehydrate", "get_public_values"} /\ last.sel = {}
     /\ last.arg # None /\ FullMapping(vtype, last.arg.m))
    => last.ret = last.arg

\* C13 witness: a TestApplicantObject built from a mapping with a name, a loan amount
\* and two addresses was dehydrated, and the result is that mapping.
C13_Witness ==
    /\ vtype = "TestApplicantObject"
    /\ last.op = "dehydrate"
    /\ last.arg # None /\ FullMapping(vtype, last.arg.m)
    /\ last.arg.m["name"] # None
    /\ last.arg.m["loan"].m["amount"] # None
    /\ DOMAIN last.arg.m["addresses"].m = CollectionKeys
    /\ \A x \in CollectionKeys : last.arg.m["addresses"].m[x].m["street"] # None
    /\ last.ret = last.arg

\* The keys of the fields of class T whose public setting is true or a non-empty set.
VisibleKeys(T) ==
    LET decl == ClassAttrs(T) IN
    {DeclaredKey(decl[i]) : i \in {j \in 1..Len(decl) :
        decl[j].field.public \notin {PubBool(FALSE), PubSet({})}}}

\* The keys of the fields of class T declared public=False.
PrivateKeys(T) ==
    LET decl == ClassAttrs(T) IN
    {DeclaredKey(decl[i]) : i \in {j \in 1..Len(decl) : decl[j].field.public = PubBool(FALSE)}}

\* C14: x.get_public_values(*sel) has entries for exactly the visible keys when sel is
\* empty and for the selected visible keys otherwise; the key of a field declared
\* public=False is never in the result, and a selection that names no field key (attribute
\* names that differ from the keys) gives the empty result.
C14_PublicKeySet ==
    last.op = "get_public_values" =>
        /\ DOMAIN last.ret.m =
              (IF last.sel = {} THEN VisibleKeys(vtype) ELSE last.sel \cap VisibleKeys(vtype))
        /\ DOMAIN last.ret.m \cap PrivateKeys(vtype) = {}
        /\ (last.sel # {} /\ last.sel \cap FieldKeys(Fields(vtype)) = {})
              => last.ret = Dict(EmptyMap)

\* C14 witness: every key of the class with collections and nested objects of each
\* visibility was selected, the private ones included, and the result has the four
\* visible keys only.
C14_Witness ==
    /\ last.op = "get_public_values"
    /\ vtype = "PartialVisibilityComplexTestValueObject"
    /\ {"privateCollection", "privateNested"} \subseteq last.sel
    /\ DOMAIN last.ret.m = {"publicCollection", "partialCollection", "publicNested", "partialNested"}
    /\ last.ret.m["publicCollection"] # Dict(EmptyMap)

\* `shown` is the public value of Collection field f, declared with the key set
\* f.public.keys, for the internal mapping `held`.
ShowsSelectedEntries(f, held, shown) ==
    /\ shown.k = "dict"
    /\ DOMAIN shown.m = DOMAIN held.m \cap f.public.keys
    /\ \A x \in DOMAIN shown.m : shown.m[x] = make_public_value(heap, f.sub_field, held.m[x])

\* C15: the public value of a Collection field declared with public as a key set S has
\* exactly the entries of the internal mapping whose keys are in S, each converted by
\* the sub-field's make_public_value, both when field.make_public_value is called and
\* in the result of get_public_values.
C15_CollectionPublicSet ==
    /\ (/\ last.op = "field.make_public_value"
        /\ last.f.kind = "Collection" /\ last.f.public.isset /\ last.e # None)
       => ShowsSelectedEntries(last.f, last.e, last.ret)
    /\ last.op = "get_public_values" =>
          \A i \in 1..Len(Fields(vtype)) :
              LET a == Fields(vtype)[i] IN
              (/\ a.field.kind = "Collection" /\ a.field.public.isset
               /\ a.field.key \in DOMAIN last.ret.m)
              => ShowsSelectedEntries(a.field, ValueOf(heap, roots[last.a], a.attr),
                                      last.ret.m[a.field.key])

\* C15 witness: the collection declared public={'alpha', 'charlie', 'delta'} holds
\* alpha, bravo and charlie, and get_public_values shows alpha and charlie only.
C15_Witness ==
    /\ last.op = "get_public_values"
    /\ vtype = "PartialVisibilityComplexTestValueObject"
    /\ DOMAIN ValueOf(heap, roots[last.a], "partial_collection").m = VisibilityKeys
    /\ "partialCollection" \in DOMAIN last.ret.m
    /\ DOMAIN last.ret.m["partialCollection"].m = {"alpha", "charlie"}

\* C16: field.make_public_value of a Collection field whose public setting is a
\* boolean has every entry of the internal mapping when public is true and no entry
\* when public is false.
C16_CollectionPublicBoolean ==
    (/\ last.op = "field.make_public_value"
     /\ last.f.kind = "Collection" /\ ~last.f.public.isset /\ last.e # None)
    => /\ last.ret.k = "dict"
       /\ DOMAIN last.ret.m = (IF last.f.public.flag THEN DOMAIN last.e.m ELSE {})

\* `shown` is the public value of nested field f (public a set, or true) for the
\* instance `held`: the nested class's visible fields, restricted to the set.
ShowsNestedPublic(f, held, shown) ==
    LET fs == Fields(f.vo_type)
        visible == VisibleKeys(f.vo_type)
    IN
    /\ shown.k = "dict"
    /\ DOMAIN shown.m = (IF f.public.isset THEN f.public.keys \cap visible ELSE visible)
    /\ DOMAIN shown.m \cap PrivateKeys(f.vo_type) = {}
    /\ \A key \in DOMAIN shown.m :
          LET a == LastWithKey(fs, key) IN
          shown.m[key] = make_public_value(heap, a.field, ValueOf(heap, held.id, a.attr))

\* C17: the public value of a nested value-object field whose public setting is a set
\* S has exactly the nested class's public fields whose keys are in S (a private field
\* listed in S is left out, a name in S that is no field key is ignored), and with
\* public true it has all of the nested class's public fields and none of its private
\* ones; both when field.make_public_value is called and in get_public_values.
C17_NestedPublicSet ==
    /\ (/\ last.op = "field.make_public_value"
        /\ last.f.kind = "ValueObject" /\ PublicTruthy(last.f.public) /\ last.e # None)
       => ShowsNestedPublic(last.f, last.e, last.ret)
    /\ last.op = "get_public_values" =>
          \A i \in 1..Len(Fields(vtype)) :
              LET a == Fields(vtype)[i] IN
              (a.field.kind = "ValueObject" /\ a.field.key \in DOMAIN last.ret.m)
              => ShowsNestedPublic(a.field, ValueOf(heap, roots[last.a], a.attr),
                                   last.ret.m[a.field.key])

\* C17 witness: the nested instance under the field declared
\* public={'public1', 'private', 'foo'} holds public1, public2 and private, and
\* get_public_values shows public1 only, while the nested field declared public shows
\* public1 and public2.
C17_Witness ==
    /\ last.op = "get_public_values"
    /\ vtype = "PartialVisibilityComplexTestValueObject"
    /\ {"partialNested", "publicNested"} \subseteq DOMAIN last.ret.m
    /\ LET held == ValueOf(heap, roots[last.a], "partial_nested") IN
          \A attr \in {"public1", "public2", "private"} : heap[held.id].values[attr] # None
    /\ DOMAIN last.ret.m["partialNested"].m = {"public1"}
    /\ DOMAIN last.ret.m["publicNested"].m = {"public1", "public2"}

\* Text s is 'YYYY-MM-DD HH:MM:SS': digits, '-', a space separator, ':' and no zone.
IsStorageDatetime(s) ==
    /\ Len(s) = 19
    /\ s[5] = 45 /\ s[8] = 45 /\ s[11] = 32 /\ s[14] = 58 /\ s[17] = 58
    /\ \A n \in (1..19) \ {5, 8, 11, 14, 17} : IsDigit(s[n])

\* Text s is ISO-8601 with a 'T' separator and ends with a zone offset '+HH:MM' or
\* '-HH:MM'.
IsIsoWithOffset(s) ==
    /\ Len(s) >= 25
    /\ s[11] = 84
    /\ s[Len(s) - 5] \in {43, 45}
    /\ s[Len(s) - 2] = 58
    /\ \A n \in {Len(s) - 4, Len(s) - 3, Len(s) - 1, Len(s)} : IsDigit(s[n])

\* C18: for every non-null value a Datetime field holds, hydrated or passed to the
\* constructor, field.dehydrate gives 'YYYY-MM-DD HH:MM:SS' without a zone,
\* field.make_public_value gives ISO-8601 text with 'T' and a zone offset, and the two
\* texts differ.
C18_DatetimeForms ==
    /\ (last.op = "field.dehydrate" /\ last.f.kind = "Datetime" /\ last.e # None)
       => last.ret.k = "text" /\ IsStorageDatetime(last.ret.s)
    /\ (last.op = "field.make_public_value" /\ last.f.kind = "Datetime" /\ last.e # None)
       => /\ last.ret.k = "text" /\ IsIsoWithOffset(last.ret.s)
          /\ last.ret # dehydrate(heap, last.f, last.e)

\* Text s is fixed-point: an optional '-', digits, and optionally '.' and digits; no
\* exponent.
IsFixedPoint(s) ==
    LET i0 == IF Len(s) >= 1 /\ s[1] = 45 THEN 2 ELSE 1
        dots == {n \in i0..Len(s) : s[n] = 46}
    IN  /\ Len(s) >= i0
        /\ Cardinality(dots) <= 1
        /\ \A n \in (i0..Len(s)) \ dots : IsDigit(s[n])
        /\ \A n \in dots : n > i0 /\ n < Len(s)

\* C19: for every non-null decimal a Decimal field holds, field.dehydrate and
\* field.make_public_value give the same fixed-point text without exponent notation
\* (Decimal('2.6E-2') gives '0.026'), and field.hydrate of that text is numerically
\* equal to the decimal.
C19_DecimalFixedPoint ==
    (last.f.kind = "Decimal" /\ last.e # None) =>
        /\ last.op = "field.dehydrate" =>
              /\ last.ret.k = "text" /\ IsFixedPoint(last.ret.s)
              /\ last.e = DecimalVal(0, 26, -3) => last.ret.s = <<48, 46, 48, 50, 54>>
        /\ last.op = "field.make_public_value" =>
              /\ last.ret.k = "text" /\ IsFixedPoint(last.ret.s)
              /\ last.ret = dehydrate(heap, last.f, last.e)
        /\ last.op = "field.hydrate" =>
              /\ last.i.k = "text" /\ IsFixedPoint(last.i.s)
              /\ last.ret.k = "decimal" /\ DecimalEq(last.ret, last.e)

\* C19 witness: Decimal('1E+2') was dehydrated to '100' and hydrated back to a decimal
\* that is numerically equal though written differently.
C19_Witness ==
    /\ last.op = "field.hydrate" /\ last.f.kind = "Decimal"
    /\ last.e = DecimalVal(0, 1, 2)
    /\ last.i = Text(<<49, 48, 48>>)
    /\ last.ret # last.e /\ DecimalEq(last.ret, last.e)

RECURSIVE FullyPopulated(_, _, _)
\* Value v of field f in heap h is a proper value at every level: a mapping for a
\* Collection, an instance with every declared attribute for a nested value object, and
\* no failure anywhere.
FullyPopulated(h, f, v) ==
    CASE f.kind = "Collection" ->
            v.k = "dict" /\ \A x \in DOMAIN v.m : FullyPopulated(h, f.sub_field, v.m[x])
      [] f.kind = "ValueObject" ->
            /\ v.k = "ref" /\ IsInstance(h, v, f.vo_type)
            /\ DOMAIN h[v.id].values = AttrNames(f.vo_type)
            /\ \A i \in 1..Len(Fields(f.vo_type)) :
                  LET a == Fields(f.vo_type)[i] IN
                  FullyPopulated(h, a.field, h[v.id].values[a.attr])
      [] OTHER -> v.k # "raised"

\* The operands of the field-level call recorded in `last` that were null.
NullCall ==
    \/ last.op \in {"field.init", "field.hydrate"} /\ last.i = None
    \/ last.op \in {"field.dehydrate", "field.make_public_value"} /\ last.e = None
    \/ last.op = "merge" /\ (last.e = None \/ last.i = None)

\* C20: init, merge, hydrate, dehydrate and make_public_value of every field kind
\* return a value, not a failure, when given null; and construct from a mapping that
\* lacks declared keys, and hydrate from null or from the empty mapping, give an
\* instance with every declared attribute, a mapping in every collection and an
\* instance in every nested field.
C20_NullSafe ==
    /\ NullCall => last.ret.k # "raised"
    /\ last.op \in {"construct", "hydrate"} =>
          /\ Bound(last.a)
          /\ FullyPopulated(heap, ValueObject(vtype, NoKey, PubBool(TRUE)), Ref(roots[last.a]))

\* C20 witness: TypedTestValueObject.hydrate(None) gave an instance with its four
\* attributes, all null.
C20_Witness ==
    /\ last.op = "hydrate" /\ last.arg = None
    /\ vtype = "TypedTestValueObject"
    /\ DOMAIN heap[roots[last.a]].values = {"bytes", "date", "datetime", "decimal"}
    /\ \A attr \in DOMAIN heap[roots[last.a]].values : heap[roots[last.a]].values[attr] = None

\* C21: T.hydrate of a stored mapping in which a Date or Datetime field, at the top
\* level or inside a Collection, holds text that does not match its format raises to
\* the caller: no instance is made or assigned, and no null or default takes the
\* place of the malformed value.
C21_ParseFailurePropagates ==
    (last.op \in {"hydrate", "hydrate raised"} /\ last.arg \in MalformedPool[vtype]) =>
        /\ last.op = "hydrate raised"
        /\ last.ret = Raised("ValueError")
        /\ ~Bound(last.a)
        /\ heap = EmptyMap

\* C21 witness: hydrate of a ComplexTestValueObject whose date collection holds one
\* malformed text raised ValueError and left the variable unassigned.
C21_Witness ==
    /\ last.op = "hydrate raised"
    /\ vtype = "ComplexTestValueObject"
    /\ last.arg.m["dateCollection"].k = "dict"
    /\ \E x \in DOMAIN last.arg.m["dateCollection"].m :
          last.arg.m["dateCollection"].m[x] \in MalformedDates
    /\ last.ret = Raised("ValueError")
    /\ ~Bound(last.a)

\* C22: a.update(b) with b an instance of another class than a raises a type-mismatch
\* error and leaves every value of a as it was.
C22_UpdateTypeMismatch ==
    (last.op = "update" /\ heap[roots[last.a]].type # heap[roots[last.b]].type) =>
        /\ last.ret.k = "raised"
        /\ Snapshot(heap, Ref(roots[last.a])).m = last.pre

\* The Collection fields of class T whose sub-field is a scalar field.
ScalarCollections(T) ==
    {i \in CollectionAttrs(T) : Fields(T)[i].field.sub_field.kind \in ScalarKinds}

\* C27: the Collection merge a step a.update(b) performs gives, under every key that
\* a's and b's mapping both hold, b's value when that value is not null, and the value
\* a held when b's value is null (scalar sub-fields).
C27_SharedKeyMerge ==
    [][last'.op = "update" =>
        \A i \in ScalarCollections(vtype) :
            LET attr == Fields(vtype)[i].attr
                existing == ValueOf(heap, roots[last'.a], attr).m
                incoming == ValueOf(heap, roots[last'.b], attr).m
                result == ValueOf(heap', roots'[last'.a], attr).m
            IN  \A x \in DOMAIN existing \cap DOMAIN incoming :
                    result[x] = IF incoming[x] # None THEN incoming[x] ELSE existing[x]]_vars

\* C27 witness: a.update(b) has merged a collection of scalars in which a key both held
\* had a value in a and another, not null, in b: a now holds b's.
C27_Witness ==
    /\ last.op = "update" /\ last.a # last.b
    /\ \E i \in ScalarCollections(vtype) :
          LET attr == Fields(vtype)[i].attr
              incoming == ValueOf(heap, roots[last.b], attr).m
              result == ValueOf(heap, roots[last.a], attr).m
          IN  \E x \in DOMAIN last.pre[attr].m \cap DOMAIN incoming :
                  /\ last.pre[attr].m[x] # None
                  /\ incoming[x] \notin {None, last.pre[attr].m[x]}
                  /\ result[x] = incoming[x]

\* C27 as stated: under every key both mappings hold the result has b's value, for
\* every value b may hold, null included.
C27_AsStated ==
    [][last'.op = "update" =>
        \A i \in ScalarCollections(vtype) :
            LET attr == Fields(vtype)[i].attr
                existing == ValueOf(heap, roots[last'.a], attr).m
                incoming == ValueOf(heap, roots[last'.b], attr).m
                result == ValueOf(heap', roots'[last'.a], attr).m
            IN  \A x \in DOMAIN existing \cap DOMAIN incoming : result[x] = incoming[x]]_vars

\* C28: after a step a.update(b), a second a.update(b) changes nothing: every instance,
\* a and the instances nested in it included, holds the values the first call left, so
\* a's dehydrated form is the same at every nesting level; and b's dehydrated form,
\* which the second call leaves as the first did, is what it was before the first.
C28_UpdateIdempotent ==
    [][last'.op = "update" =>
        /\ BaseValueObject_update(heap', roots[last'.a], roots[last'.b]) = heap'
        /\ last'.a # last'.b =>
              BaseValueObject_dehydrate(heap', roots[last'.b])
                  = BaseValueObject_dehydrate(heap, roots[last'.b])]_vars

\* C28 witness: a.update(b) with b another instance has changed a's own value, its
\* nested instance and its collection, to which it added an element only b had.
C28_Witness ==
    /\ last.op = "update" /\ last.a # last.b
    /\ vtype = "TestApplicantObject"
    /\ LET a == Snapshot(heap, Ref(roots[last.a])).m
           b == Snapshot(heap, Ref(roots[last.b])).m
       IN  /\ a["name"] # last.pre["name"]
           /\ a["loan"].m # last.pre["loan"].m
           /\ DOMAIN b["addresses"].m \ DOMAIN last.pre["addresses"].m # {}
           /\ DOMAIN last.pre["addresses"].m \cap DOMAIN b["addresses"].m # {}
           /\ DOMAIN a["addresses"].m = DOMAIN last.pre["addresses"].m \cup DOMAIN b["addresses"].m

(***************************************************************************)
(* Two instances of a class with visibility settings, built from mappings  *)
(* that differ from a fully populated one in one place, and read through   *)
(* get_public_values.                                                      *)
(***************************************************************************)
\* The values near SampleRaw(f): absent entries, None, and one entry changed.
NearValues(f) ==
    {None, SampleRaw(f)} \cup
    CASE f.kind = "Collection" ->
            LET m == SampleRaw(f).m IN
            {Dict([y \in (DOMAIN m) \ {x} |-> m[y]]) : x \in DOMAIN m}
            \cup {Dict([m EXCEPT ![x] = v]) : x \in DOMAIN m, v \in RawValues(f.sub_field)}
      [] f.kind = "ValueObject" -> {Dict(m) : m \in OneKeyChanged(f.vo_type, SampleRaw(f).m, "raw")}
      [] OTHER -> RawValues(f)

PairPool ==
    [T \in VisibilityTypes |->
        LET fs == Fields(T)
            row == [key \in FieldKeys(fs) |-> SampleRaw(LastWithKey(fs, key).field)]
        IN  {row}
            \cup {[key \in (DOMAIN row) \ {fs[i].field.key} |-> row[key]] : i \in 1..Len(fs)}
            \cup UNION {{DictUpdate(row, fs[i].field.key :> v) : v \in NearValues(fs[i].field)} :
                        i \in 1..Len(fs)}]

\* The selections passed to get_public_values of the two instances: none, every field
\* key, and the key alone of each field declared private or with a set of public keys.
PairSelections(T) ==
    LET fs == Fields(T) IN
    {{}, FieldKeys(fs)}
    \cup {{fs[i].field.key} : i \in {j \in 1..Len(fs) : fs[j].field.public # PubBool(TRUE)}}

NextPair ==
    \/ \E s \in {t \in Slots : NextSlot(t)} : \E raw \in PairPool[vtype] : Construct(s, raw)
    \/ \E s \in {t \in Slots : Bound(t)} : \E sel \in PairSelections(vtype) :
          GetPublicValues(s, sel)

InitPair == InitWith(VisibilityTypes, 2)

SpecPair == InitPair /\ [][NextPair]_vars

RECURSIVE PublicData(_, _, _)
RECURSIVE PublicDataOf(_, _)
\* Value v of field f without the entries of a Collection whose keys are outside the
\* declared public key set and, in nested instances, without the private fields.
PublicData(h, f, v) ==
    CASE f.kind = "Collection" /\ v.k = "dict" ->
            LET keys == IF f.public.isset THEN DOMAIN v.m \cap f.public.keys ELSE DOMAIN v.m
            IN  Dict([x \in keys |-> PublicData(h, f.sub_field, v.m[x])])
      [] f.kind = "ValueObject" /\ v.k = "ref" -> Dict(PublicDataOf(h, v.id))
      [] OTHER -> v

\* The values instance id holds, without those of the fields declared public=False.
PublicDataOf(h, id) ==
    LET fs == Fields(h[id].type)
        shown == {i \in 1..Len(fs) : PublicTruthy(fs[i].field.public)}
    IN  [attr \in {fs[i].attr : i \in shown} |->
            LET i == CHOOSE j \in shown : fs[j].attr = attr
            IN  PublicData(h, fs[i].field, h[id].values[attr])]

\* C29: get_public_values(*sel) of an instance returns what it returns for any other
\* instance of the class that differs from it only in private data: values of fields
\* declared public=False, at the top level or in nested instances, and collection
\* entries under keys outside a declared public key set.
C29_PublicIgnoresPrivate ==
    last.op = "get_public_values" =>
        \A t \in {s \in Slots : Bound(s)} :
            PublicDataOf(heap, roots[t]) = PublicDataOf(heap, roots[last.a]) =>
                Dict(BaseValueObject_get_public_values(heap, roots[t], last.sel)) = last.ret

\* C29 witness: get_public_values() has returned public values, a nested instance's
\* among them, for an instance while another instance holds the same public data but
\* another private collection, another private value in a nested instance, and another
\* entry under a key outside the public key set.
C29_Witness ==
    /\ last.op = "get_public_values" /\ last.sel = {}
    /\ vtype = "PartialVisibilityComplexTestValueObject"
    /\ \E t \in {s \in Slots : Bound(s)} :
          LET a == Snapshot(heap, Ref(roots[last.a])).m
              b == Snapshot(heap, Ref(roots[t])).m
          IN  /\ PublicDataOf(heap, roots[t]) = PublicDataOf(heap, roots[last.a])
              /\ \/ a["private_collection"] # b["private_collection"]
                 \/ a["partial_nested"].m["private"] # b["partial_nested"].m["private"]
                 \/ a["private_nested"].m # b["private_nested"].m
              /\ "bravo" \in DOMAIN a["partial_collection"].m
              /\ "bravo" \in DOMAIN b["partial_collection"].m
              /\ a["partial_collection"].m["bravo"] # b["partial_collection"].m["bravo"]
    /\ last.ret.m["publicNested"].k = "dict"
    /\ last.ret.m["partialCollection"].m # EmptyMap

(***************************************************************************)
(* Mapping objects.  The operators above treat a mapping as its content;   *)
(* here a mapping is an object of the heap with an identity, the caller's  *)
(* variables hold mapping objects, and Collection.init and                 *)
(* Collection.merge are called on them directly.                           *)
(***************************************************************************)
MaxObjects == 3

\* A dict object with content m.
MappingObject(m) == [type |-> "dict", values |-> m]

\* The content of the mapping object a reference names (None for None).
Deref(h, value) == IF value = None THEN None ELSE Dict(h[value.id].values)

\* The mapping r.v as a dict object of its own, under identity id.
MappingObject_at(r, id) == [h |-> r.h @@ (id :> MappingObject(r.v.m)), v |-> Ref(id)]

\* The mapping r.v as a new dict object.
MappingObject_new(r) == MappingObject_at(r, NewId(r.h))

\* Collection.init on mapping objects: `{}` and the dict comprehension each create a
\* new dict object, which is returned.
Collection_init_object(h, f, value) ==
    MappingObject_new(Collection_init(h, f, Deref(h, value)))

Collection_merge_object_update(r, existing) ==
    IF existing # None
    THEN [h |-> [r.h EXCEPT ![existing.id].values = r.v.m], v |-> existing]
    ELSE MappingObject_new(r)

\* Collection.merge updating `existing` in place, when there is one, and returning it.
Collection_merge_object_inplace(h, f, existing, incoming) ==
    Collection_merge_object_update(
        Collection_merge(h, f, Deref(h, existing), Deref(h, incoming)), existing)

\* Collection.merge on mapping objects: `merged = {}` creates a new dict object, which
\* is updated with the operands' entries and returned.
Collection_merge_object(h, f, existing, incoming) ==
    MappingObject_new(Collection_merge(h, f, Deref(h, existing), Deref(h, incoming)))

\* The Collection field the calls are made on: ComplexTestValueObject.simple, whose raw
\* and internal mappings hold the same values (the sub-field's init is the identity).
MappingField == Fields("ComplexTestValueObject")[1].field

\* The mapping objects the caller's variables hold, and None.
Operands == {None} \cup {Ref(roots[t]) : t \in {s \in Slots : Bound(s)}}

\* The variables a call's result can be assigned to: a bound one or the next free one.
Targets == {s \in Slots : Bound(s) \/ NextSlot(s)}

\* roots[s] = {...}: the caller creates a mapping
NewMapping(s, m) ==
    /\ NextSlot(s)
    /\ Cardinality(DOMAIN heap) < MaxObjects
    /\ LET id == NewId(heap) IN
        /\ heap' = heap @@ (id :> MappingObject(m))
        /\ roots' = [roots EXCEPT ![s] = id]
        /\ last' = [Op("dict", s, 0, DOMAIN m, {}, EmptyMap) EXCEPT !.ret = Ref(id)]
    /\ UNCHANGED <<vtype, table, stores>>

\* The mapping object r a call returned goes to variable s; `call` records the call.
Collection_assign(s, r, call) ==
    /\ heap' = r.h
    /\ roots' = [roots EXCEPT ![s] = r.v.id]
    /\ last' = [call EXCEPT !.ret = r.v]

\* roots[s] = f.init(value)
CollectionInit(s, f, value) ==
    /\ Cardinality(DOMAIN heap) < MaxObjects
    /\ Collection_assign(s, Collection_init_object(heap, f, value),
            [Op("collection.init", s, 0, {}, {}, EmptyMap) EXCEPT !.f = f, !.i = value])
    /\ UNCHANGED <<vtype, table, stores>>

\* roots[s] = f.merge(existing, incoming), as update assigns it to the receiver's field
CollectionMerge(s, f, existing, incoming) ==
    /\ Cardinality(DOMAIN heap) < MaxObjects
    /\ Collection_assign(s, Collection_merge_object(heap, f, existing, incoming),
            [Op("collection.merge", s, 0, {}, {}, EmptyMap) EXCEPT
                !.f = f, !.e = existing, !.i = incoming])
    /\ UNCHANGED <<vtype, table, stores>>

\* roots[s][key] = v: the caller changes a mapping it holds
SetItem(s, key, v) ==
    /\ Bound(s)
    /\ heap' = [heap EXCEPT ![roots[s]].values = DictUpdate(@, key :> v)]
    /\ last' = [Op("setitem", s, 0, {key}, {}, EmptyMap) EXCEPT !.i = v]
    /\ UNCHANGED <<roots, vtype, table, stores>>

\* The mappings the caller creates: empty or with one entry, under the first key.
NewMappings == PartialMaps({"home"}, PrimValues)

NextObjects ==
    \/ \E s \in Slots : \E m \in NewMappings : NewMapping(s, m)
    \/ \E s \in Targets : \E value \in Operands : CollectionInit(s, MappingField, value)
    \/ \E s \in Targets : \E existing, incoming \in Operands :
          CollectionMerge(s, MappingField, existing, incoming)
    \/ \E s \in Slots : SetItem(s, "work", Prim(1))

\* Two variables, holding mapping objects.
InitObjects == InitWith({"ComplexTestValueObject"}, 2)

SpecObjects == InitObjects /\ [][NextObjects]_vars

\* C26: a call of Collection.init or Collection.merge returns a mapping object that did
\* not exist before the call, and leaves every mapping that existed as it was; so no
\* two variables come to hold the same mapping object, and setting a key in the
\* mapping one variable holds leaves the mapping any other variable holds as it was.
C26_NewMapping ==
    [][/\ last'.op \in {"collection.init", "collection.merge"} =>
            /\ last'.ret.id \notin DOMAIN heap
            /\ last'.ret.id \notin {x.id : x \in {last'.e, last'.i} \ {None}}
            /\ \A id \in DOMAIN heap : heap'[id] = heap[id]
       /\ last'.op = "setitem" =>
            \A t \in Slots \ {last'.a} : Bound(t) => heap'[roots'[t]] = heap[roots[t]]]_vars

\* C26 witness: merge(existing, incoming) of two mappings with entries has returned a
\* third mapping object, with the keys of both, and has been assigned to the variable
\* that held `existing`.
C26_Witness ==
    /\ last.op = "collection.merge"
    /\ last.e # None /\ last.i # None /\ last.e # last.i
    /\ heap[last.e.id].values # EmptyMap /\ heap[last.i.id].values # EmptyMap
    /\ DOMAIN heap[last.ret.id].values
          = DOMAIN heap[last.e.id].values \cup DOMAIN heap[last.i.id].values
    /\ DOMAIN heap[last.e.id].values # DOMAIN heap[last.ret.id].values
    /\ last.ret.id \notin {last.e.id, last.i.id}
    /\ roots[last.a] = last.ret.id
    /\ \E t \in Slots \ {last.a} : roots[t] = last.i.id

(***************************************************************************)
(* The session store: SessionStore instances over the rows of the session  *)
(* table.  A row's session_data and an instance's cached session are       *)
(* mappings; _session_cache does not exist until the session is read.      *)
(***************************************************************************)
\* No session key (None).
NoSessionKey == ""

\* The session keys in use.
SessionKeys == {"s1", "s2"}

\* The instance has no _session_cache attribute yet.
Unloaded == [k |-> "unloaded"]

PyBool(b) == [k |-> "bool", b |-> b]

\* SessionStore.__init__(session_key)
SessionStore_init(session_key) ==
    [session_key |-> session_key, cache |-> Unloaded, exists |-> None,
     accessed |-> FALSE, modified |-> FALSE]

\* SessionStore.load: [st |-> the instance afterwards, v |-> the mapping returned]
SessionStore_load(st, tbl) ==
    IF st.session_key \notin DOMAIN tbl
    THEN [st |-> [st EXCEPT !.exists = PyBool(FALSE)], v |-> Dict(EmptyMap)]
    ELSE [st |-> [st EXCEPT !.exists = PyBool(TRUE)], v |-> Dict(tbl[st.session_key])]

\* SessionStore._check_exists
SessionStore_check_exists(tbl, session_key) == PyBool(session_key \in DOMAIN tbl)

\* SessionStore.exists(session_key=None)
SessionStore_exists(st, tbl, session_key) ==
    IF session_key = NoSessionKey /\ st.session_key = NoSessionKey THEN [st |-> st, v |-> None]
    ELSE LET key == IF session_key = NoSessionKey THEN st.session_key ELSE session_key IN
         IF key = st.session_key
         THEN LET checked == IF st.exists = None
                             THEN [st EXCEPT !.exists = SessionStore_check_exists(tbl, key)]
                             ELSE st
              IN  [st |-> checked, v |-> checked.exists]
         ELSE [st |-> st, v |-> SessionStore_check_exists(tbl, key)]

\* SessionBase._get_session(no_load), as save and the dict interface of the session
\* use it: the cached session, read with load() the first time unless no_load.
SessionBase_get_session(st, tbl, no_load) ==
    IF st.cache # Unloaded THEN [st EXCEPT !.accessed = TRUE]
    ELSE IF st.session_key = NoSessionKey \/ no_load
         THEN [st EXCEPT !.accessed = TRUE, !.cache = Dict(EmptyMap)]
         ELSE LET r == SessionStore_load(st, tbl)
              IN  [r.st EXCEPT !.accessed = TRUE, !.cache = r.v]

\* SessionStore.save(must_create): the row is written (inserted, or updated when it is
\* there and must_create is false); inserting a key that has a row raises CreateError.
SessionStore_save(st, tbl, must_create) ==
    LET read == SessionBase_get_session(st, tbl, must_create)
        key == IF read.session_key = NoSessionKey
               THEN CHOOSE x \in SessionKeys : x \notin DOMAIN tbl
               ELSE read.session_key
        obj == [read EXCEPT !.session_key = key]
    IN  IF must_create /\ key \in DOMAIN tbl
        THEN [st |-> obj, tbl |-> tbl, v |-> Raised("CreateError")]
        ELSE [st |-> [obj EXCEPT !.exists = PyBool(TRUE), !.accessed = TRUE,
                                 !.modified = FALSE],
              tbl |-> DictUpdate(tbl, key :> obj.cache.m),
              v |-> None]

\* SessionStore.delete(session_key=None)
SessionStore_delete(st, tbl, session_key) ==
    IF session_key = NoSessionKey /\ st.session_key = NoSessionKey THEN [st |-> st, tbl |-> tbl]
    ELSE LET key == IF session_key = NoSessionKey THEN st.session_key ELSE session_key IN
         [st |-> IF key = st.session_key THEN [st EXCEPT !.exists = PyBool(FALSE)] ELSE st,
          tbl |-> [x \in (DOMAIN tbl) \ {key} |-> tbl[x]]]

\* The record of a call on store n with session key argument `key`.
StoreOp(op, n, key, ret) ==
    [Op(op, n, 0, {key}, {}, EmptyMap) EXCEPT !.ret = ret]

\* stores[n].load()
Load(n) ==
    /\ LET r == SessionStore_load(stores[n], table) IN
        /\ stores' = [stores EXCEPT ![n] = r.st]
        /\ last' = StoreOp("load", n, NoSessionKey, r.v)
    /\ UNCHANGED <<heap, roots, vtype, table>>

\* stores[n].exists(session_key)
Exists(n, session_key) ==
    /\ LET r == SessionStore_exists(stores[n], table, session_key) IN
        /\ stores' = [stores EXCEPT ![n] = r.st]
        /\ last' = StoreOp("exists", n, session_key, r.v)
    /\ UNCHANGED <<heap, roots, vtype, table>>

\* stores[n].save(must_create)
Save(n, must_create) ==
    /\ LET r == SessionStore_save(stores[n], table, must_create) IN
        /\ stores' = [stores EXCEPT ![n] = r.st]
        /\ table' = r.tbl
        /\ last' = StoreOp(IF must_create THEN "save must_create" ELSE "save", n,
                           NoSessionKey, r.v)
    /\ UNCHANGED <<heap, roots, vtype>>

\* stores[n].delete(session_key)
Delete(n, session_key) ==
    /\ LET r == SessionStore_delete(stores[n], table, session_key) IN
        /\ stores' = [stores EXCEPT ![n] = r.st]
        /\ table' = r.tbl
        /\ last' = StoreOp("delete", n, session_key, None)
    /\ UNCHANGED <<heap, roots, vtype>>

NextExists ==
    \/ \E n \in DOMAIN stores : Load(n)
    \/ \E n \in DOMAIN stores : \E key \in {NoSessionKey} \cup SessionKeys : Exists(n, key)
    \/ \E n \in DOMAIN stores : \E must_create \in BOOLEAN : Save(n, must_create)
    \/ \E n \in DOMAIN stores : \E key \in {NoSessionKey} \cup SessionKeys : Delete(n, key)

\* Two SessionStore instances, made for the same session key or for two keys, and an
\* empty session table.
InitExists ==
    /\ heap = EmptyMap
    /\ roots = <<>>
    /\ vtype = "ApplicantObject"
    /\ last = Op("none", 0, 0, {}, {}, EmptyMap)
    /\ table = EmptyMap
    /\ \E key \in SessionKeys : stores = <<SessionStore_init("s1"), SessionStore_init(key)>>

SpecExists == InitExists /\ [][NextExists]_vars

\* C30: exists() called for the store's own session key returns whether the session
\* table has a row with that key at that moment, whatever load, save, delete and
\* exists calls were made before, through this or another SessionStore instance.
C30_ExistsNeverStale ==
    (last.op = "exists" /\ last.keys \subseteq {NoSessionKey, stores[last.a].session_key}) =>
        last.ret = PyBool(stores[last.a].session_key \in DOMAIN table)

(***************************************************************************)
(* The applicant in the session: get_applicant_vo, set_applicant_vo and    *)
(* update_applicant_vo of SessionStore, Session.applicant_vo, the          *)
(* applicant form and the view that receives it.                           *)
(***************************************************************************)
\* self.get('applicant'): the entry of the cached session, read first if need be
SessionApplicant(st, tbl) == Get(SessionBase_get_session(st, tbl, FALSE).cache.m, "applicant")

\* ApplicantObject.hydrate(self.get('applicant')) on the session data already loaded
SessionStore_hydrate_applicant(h, read) ==
    ValueObjectMeta_hydrate(h, "ApplicantObject", Get(read.cache.m, "applicant"))

\* What a call returns: the heap, the value, and the SessionStore after the call.
Returned(r, st) == [h |-> r.h, v |-> r.v, st |-> st]

\* SessionBase.__setitem__: self._session[key] = value; self.modified = True
SessionBase_setitem(read, key, value) ==
    [read EXCEPT !.cache = Dict(DictUpdate(read.cache.m, key :> value)), !.modified = TRUE]

SessionStore_get_applicant_vo_kept(read, r) ==
    Returned(r, [read EXCEPT !.cache = Dict(DictUpdate(read.cache.m, "applicant_vo" :> r.v))])

SessionStore_get_applicant_vo_shared_loaded(h, read) ==
    IF "applicant_vo" \in DOMAIN read.cache.m
    THEN [h |-> h, v |-> read.cache.m["applicant_vo"], st |-> read]
    ELSE SessionStore_get_applicant_vo_kept(read, SessionStore_hydrate_applicant(h, read))

\* get_applicant_vo that keeps the instance it made in the session and returns that
\* same instance from then on.
SessionStore_get_applicant_vo_shared(h, st, tbl) ==
    SessionStore_get_applicant_vo_shared_loaded(h, SessionBase_get_session(st, tbl, FALSE))

SessionStore_get_applicant_vo_loaded(h, read) ==
    Returned(SessionStore_hydrate_applicant(h, read), read)

\* SessionStore.get_applicant_vo: [h, v |-> the instance returned, st]
SessionStore_get_applicant_vo(h, st, tbl) ==
    SessionStore_get_applicant_vo_loaded(h, SessionBase_get_session(st, tbl, FALSE))

\* SessionStore.set_applicant_vo: self['applicant'] = applicant.dehydrate(), and the
\* session's __setitem__ marks it modified
SessionStore_set_applicant_vo(h, st, tbl, applicant) ==
    SessionBase_setitem(SessionBase_get_session(st, tbl, FALSE), "applicant",
                        Dict(BaseValueObject_dehydrate(h, applicant)))

\* update_applicant_vo that stores the incoming applicant as it is.
SessionStore_update_applicant_vo_replace(h, st, tbl, applicant) ==
    SessionStore_set_applicant_vo(h, st, tbl, applicant)

\* existing.update(applicant); self.set_applicant_vo(existing)
SessionStore_update_applicant_vo_existing(existing, tbl, applicant) ==
    SessionStore_set_applicant_vo(BaseValueObject_update(existing.h, existing.v.id, applicant),
                                  existing.st, tbl, existing.v.id)

\* SessionStore.update_applicant_vo; `existing` is dropped when the call returns
SessionStore_update_applicant_vo(h, st, tbl, applicant) ==
    SessionStore_update_applicant_vo_existing(SessionStore_get_applicant_vo(h, st, tbl),
                                              tbl, applicant)

\* Session.applicant_vo (getter) of the row with the given key
Session_applicant_vo(h, tbl, session_key) ==
    ValueObjectMeta_hydrate(h, "ApplicantObject", Get(tbl[session_key], "applicant"))

\* 'm', 'f'
Genders == {Text(<<109>>), Text(<<102>>)}

\* ApplicantForm's fields: CharField (required), ChoiceField over the two choices,
\* DateField read in the format %Y-%m-%d.  [ok, m |-> cleaned_data]
ApplicantForm_fields_clean(data) ==
    LET birthday == Date_hydrate(Get(data, "birthday"))
        ok == /\ \A key \in {"first_name", "last_name", "email"} : Get(data, key) # None
              /\ Get(data, "gender") \in Genders
              /\ birthday.k = "date"
    IN  [ok |-> ok,
         m |-> IF ok THEN [data EXCEPT !["birthday"] = birthday] ELSE EmptyMap]

\* ApplicantForm.clean: ApplicantObject(self.cleaned_data)
ApplicantForm_clean(h, cleaned_data) == BaseValueObject_init(h, "ApplicantObject", cleaned_data)

\* request.session.update_applicant_vo(form.cleaned_data)
Applicant_post_valid(cleaned, st, tbl) ==
    SessionStore_update_applicant_vo(cleaned.h, st, tbl, cleaned.v.id)

\* if form.is_valid(): ...
Applicant_post_form(h, st, tbl, form) ==
    IF form.ok THEN Applicant_post_valid(ApplicantForm_clean(h, form.m), st, tbl) ELSE st

\* Applicant.post: the form is validated; when it is valid, form.cleaned_data is what
\* clean() returned, and the session's applicant is updated from it.
Applicant_post(h, st, tbl, data) ==
    Applicant_post_form(h, st, tbl, ApplicantForm_fields_clean(data))

\* The session key of the client's cookie.
ClientKey == "s1"

\* The mappings applicants are constructed from: nothing, every value the form has
\* (the birthday among them), or a first name only.
ApplicantPool ==
    {EmptyMap,
     [first_name |-> Prim(1), last_name |-> Prim(1), gender |-> Text(<<109>>),
      birthday |-> DateVal(1900, 8, 13), email |-> Prim(1)]}
    \cup {[first_name |-> v] : v \in PrimValues \ {Prim(1)}}

\* The form data posted: valid, with a gender that is no choice, with a day that does
\* not exist, and without the e-mail address.
PostPool ==
    LET valid == [first_name |-> Prim(2), last_name |-> Prim(2), gender |-> Text(<<102>>),
                  birthday |-> Text(FormatDate(DateVal(1909, 3, 23))), email |-> Prim(2)]
    IN  {valid,
         [valid EXCEPT !["gender"] = Text(<<120>>)],
         [valid EXCEPT !["birthday"] = Text(FormatDate(DateVal(1909, 2, 30)))],
         [key \in (DOMAIN valid) \ {"email"} |-> valid[key]]}

\* The record of a call on store n with value object variable s.
ApplicantOp(op, s, n, pre, arg, ret) ==
    [Op(op, s, n, {}, {}, pre) EXCEPT !.arg = arg, !.ret = ret]

\* What the session of store n holds for the applicant, as a mapping.
StoredApplicant(n) ==
    LET stored == SessionApplicant(stores[n], table)
    IN  IF Falsy(stored) THEN EmptyMap ELSE stored.m

\* The instance r returned by store n goes to variable s.
GetApplicantVo_bind(n, s, r) ==
    /\ heap' = r.h
    /\ roots' = [roots EXCEPT ![s] = r.v.id]
    /\ stores' = [stores EXCEPT ![n] = r.st]
    /\ last' = ApplicantOp("get_applicant_vo", s, n, StoredApplicant(n), None, r.v)

\* roots[s] = stores[n].get_applicant_vo()
GetApplicantVo(n, s) ==
    /\ NextSlot(s)
    /\ GetApplicantVo_bind(n, s, SessionStore_get_applicant_vo(heap, stores[n], table))
    /\ UNCHANGED <<vtype, table>>

\* The instance r made from the row's stored applicant goes to variable s.
RowApplicantVo_bind(s, r, stored) ==
    /\ heap' = r.h
    /\ roots' = [roots EXCEPT ![s] = r.v.id]
    /\ last' = ApplicantOp("applicant_vo", s, 0,
                           IF Falsy(stored) THEN EmptyMap ELSE stored.m, None, r.v)

\* roots[s] = Session.objects.get(session_key=ClientKey).applicant_vo
RowApplicantVo(s) ==
    /\ ClientKey \in DOMAIN table
    /\ NextSlot(s)
    /\ RowApplicantVo_bind(s, Session_applicant_vo(heap, table, ClientKey),
                           Get(table[ClientKey], "applicant"))
    /\ UNCHANGED <<vtype, table, stores>>

\* stores[n].set_applicant_vo(roots[s])
SetApplicantVo(n, s) ==
    /\ Bound(s)
    /\ stores' = [stores EXCEPT
                    ![n] = SessionStore_set_applicant_vo(heap, stores[n], table, roots[s])]
    /\ last' = ApplicantOp("set_applicant_vo", s, n, StoredApplicant(n),
                           Dict(BaseValueObject_dehydrate(heap, roots[s])), None)
    /\ UNCHANGED <<heap, roots, vtype, table>>

\* stores[n].update_applicant_vo(roots[s])
UpdateApplicantVo(n, s) ==
    /\ Bound(s)
    /\ stores' = [stores EXCEPT
                    ![n] = SessionStore_update_applicant_vo(heap, stores[n], table, roots[s])]
    /\ last' = ApplicantOp("update_applicant_vo", s, n, StoredApplicant(n),
                           Dict(BaseValueObject_dehydrate(heap, roots[s])), None)
    /\ UNCHANGED <<heap, roots, vtype, table>>

\* SessionMiddleware.process_response: the session is saved if the view modified it.
SessionMiddleware_process_response(st, tbl) ==
    IF st.modified THEN SessionStore_save(st, tbl, FALSE) ELSE [st |-> st, tbl |-> tbl]

\* The state after the request whose session ended as `saved`.
Post_respond(n, data, saved) ==
    /\ stores' = [stores EXCEPT ![n] = saved.st]
    /\ table' = saved.tbl
    /\ last' = ApplicantOp("post", 0, n, StoredApplicant(n), Dict(data), Prim(200))

\* A request: the session middleware makes a SessionStore for the key of the client's
\* cookie, and saves it after the view if the view modified the session.
Post(n, data) ==
    /\ Post_respond(n, data,
            SessionMiddleware_process_response(
                Applicant_post(heap, SessionStore_init(stores[n].session_key), table, data),
                table))
    /\ UNCHANGED <<heap, roots, vtype>>

\* stores[n] = SessionStore(session_key): a new instance for the same key, as each
\* request and each read of the test client's session make one
NewStore(n) ==
    /\ stores' = [stores EXCEPT ![n] = SessionStore_init(stores[n].session_key)]
    /\ last' = StoreOp("SessionStore", n, stores[n].session_key, None)
    /\ UNCHANGED <<heap, roots, vtype, table>>

NextSession ==
    \/ \E s \in {t \in Slots : NextSlot(t)} : \E raw \in ApplicantPool :
          ConstructAs(s, "ApplicantObject", raw)
    \/ \E a, b \in {t \in Slots : Bound(t)} : Update(a, b)
    \/ \E n \in DOMAIN stores : \E s \in Slots : GetApplicantVo(n, s)
    \/ \E s \in Slots : RowApplicantVo(s)
    \/ \E n \in DOMAIN stores : \E s \in Slots : SetApplicantVo(n, s)
    \/ \E n \in DOMAIN stores : \E s \in Slots : UpdateApplicantVo(n, s)
    \/ \E n \in DOMAIN stores : \E data \in PostPool : Post(n, data)
    \/ \E n \in DOMAIN stores : Save(n, FALSE)
    \/ \E n \in DOMAIN stores : NewStore(n)

\* One SessionStore for the client's session key, no row in the session table, and two
\* variables for applicant value objects.
InitSession ==
    /\ heap = EmptyMap
    /\ roots = <<0, 0>>
    /\ vtype = "ApplicantObject"
    /\ last = Op("none", 0, 0, {}, {}, EmptyMap)
    /\ table = EmptyMap
    /\ stores = <<SessionStore_init(ClientKey)>>

SpecSession == InitSession /\ [][NextSession]_vars

\* C23: after stores[n].update_applicant_vo(a), get_applicant_vo() returns an
\* ApplicantObject in which every field has a's value where that is not null and the
\* value the session held before otherwise (null when it held no applicant, so that
\* the result equals a); each call merges into what the calls before it left.
C23_UpdateApplicantMerges ==
    last.op = "update_applicant_vo" =>
        LET got == SessionStore_get_applicant_vo(heap, stores[last.b], table)
            before == ValueObjectMeta_hydrate_values("ApplicantObject", last.pre)
            a == heap[roots[last.a]].values
            fs == Fields("ApplicantObject")
        IN  /\ IsInstance(got.h, got.v, "ApplicantObject")
            /\ \A i \in 1..Len(fs) :
                  got.h[got.v.id].values[fs[i].attr]
                      = IF a[fs[i].attr] # None THEN a[fs[i].attr]
                        ELSE before[fs[i].field.key]

\* C23 witness: update_applicant_vo(a) was called on a session that held an applicant,
\* with an a that has another first name and no last name: the session now holds a's
\* first name and the last name it held before.
C23_Witness ==
    /\ last.op = "update_applicant_vo"
    /\ last.pre # EmptyMap
    /\ Get(last.pre, "last_name") # None /\ Get(last.pre, "first_name") # None
    /\ LET a == heap[roots[last.a]].values
           now == StoredApplicant(last.b)
       IN  /\ a["first_name"] \notin {None, last.pre["first_name"]}
           /\ a["last_name"] = None
           /\ now["first_name"] = a["first_name"]
           /\ now["last_name"] = last.pre["last_name"]

\* The applicant a new SessionStore for the client's key reads from the session table.
ClientApplicant ==
    LET got == SessionStore_get_applicant_vo(heap, SessionStore_init(ClientKey), table)
    IN  got.h[got.v.id].values

\* C24: after a POST of valid form data, on a session with or without an applicant,
\* the applicant read from the session has the first name, last name, gender and
\* e-mail address posted, and a birthday that is the posted date as a date value.
C24_PostStoresApplicant ==
    (last.op = "post" /\ ApplicantForm_fields_clean(last.arg.m).ok) =>
        /\ \A key \in {"first_name", "last_name", "gender", "email"} :
              ClientApplicant[key] = last.arg.m[key]
        /\ "birthday" \in DOMAIN ClientApplicant
        /\ Get(ClientApplicant, "birthday") = Date_hydrate(last.arg.m["birthday"])

\* The values of the applicant get_applicant_vo() of store st would return.
ApplicantRead(h, st, tbl) ==
    LET got == SessionStore_get_applicant_vo(h, st, tbl) IN got.h[got.v.id].values

\* C25: get_applicant_vo() and Session.applicant_vo return a new instance holding the
\* session's values, and leave the session as it is; a step x.update(y) on value
\* objects, x returned by the session or not, changes neither the session table nor
\* what get_applicant_vo() returns for any store; only set_applicant_vo(x) makes
\* get_applicant_vo() return x's values.
C25_ApplicantIsCopy ==
    [][/\ last'.op \in {"get_applicant_vo", "applicant_vo"} =>
            /\ last'.ret.id \notin DOMAIN heap
            /\ heap'[last'.ret.id].values
                  = ValueObjectMeta_hydrate_values("ApplicantObject", last'.pre)
            /\ table' = table
            /\ \A n \in DOMAIN stores :
                  ApplicantRead(heap', stores'[n], table') = ApplicantRead(heap, stores[n], table)
       /\ last'.op = "update" =>
            /\ table' = table
            /\ \A n \in DOMAIN stores :
                  ApplicantRead(heap', stores'[n], table') = ApplicantRead(heap, stores[n], table)
       /\ last'.op = "set_applicant_vo" =>
            /\ table' = table
            /\ ApplicantRead(heap', stores'[last'.b], table') = heap[roots[last'.a]].values]_vars

\* C25 witness: an applicant the session returned (it has the gender a post stored,
\* which no constructed applicant has) was updated from another applicant and has
\* taken its gender, while the session still holds the gender it held.
C25_Witness ==
    /\ last.op = "update" /\ last.a # last.b
    /\ last.pre["gender"] = Text(<<102>>)
    /\ heap[roots[last.a]].values["gender"] = Text(<<109>>)
    /\ \E n \in DOMAIN stores : StoredApplicant(n) # EmptyMap
                                /\ StoredApplicant(n)["gender"] = Text(<<102>>)

=============================================================================
